---------------------------- MODULE Spec2Model ----------------------------
(***************************************************************************)
(* JojoDiff (jdiff / jpatch): a model of the differencing driver, of its   *)
(* buffered readers, of its hash index and match table, and of the patch   *)
(* decoder, written from the C++ sources.                                  *)
(*                                                                         *)
(* Offsets (off_t) that must keep their width are 8-byte big-endian        *)
(* two's-complement vectors; positions inside the small files of the       *)
(* model are plain integers.                                               *)
(***************************************************************************)
EXTENDS Integers, Sequences, FiniteSets, TLC

VARIABLES gi, pt, jd, fa, ix

vars == <<gi, pt, jd, fa, ix>>

(***************************************************************************)
(* Program constants (JDefs.h, held in main.cpp of this source tree).      *)
(***************************************************************************)
EOF == -1

EOB == -2

EXI_OK == 0

EXI_DIF == 1

EXI_EQL == 2

EXI_ARG == -2

EXI_MEM == -10

EXI_SEK == -6

EXI_LRG == -7

EXI_RED == -8

EXI_WRI == -9

EXI_ERR == -20

ESC == 167

MOD == 166

INS == 165

DEL == 164

EQL == 163

BKT == 162

(***************************************************************************)
(* Generic helpers.                                                        *)
(***************************************************************************)
Min(a, b) == IF a < b THEN a ELSE b

Max(a, b) == IF a > b THEN a ELSE b

SeqsUpTo(S, n) == UNION {[1..k -> S] : k \in 0..n}

Front(s, k) == SubSeq(s, 1, k)

(***************************************************************************)
(* off_t arithmetic on 8-byte big-endian two's-complement vectors.         *)
(***************************************************************************)
OffZero == <<0, 0, 0, 0, 0, 0, 0, 0>>

OffMinusOne == <<255, 255, 255, 255, 255, 255, 255, 255>>

RECURSIVE OffAddFrom(_, _, _)
\* add the carry c into byte k of v and go on to the left
OffAddFrom(v, k, c) ==
  IF k = 0 \/ c = 0 THEN v
  ELSE OffAddFrom([v EXCEPT ![k] = (v[k] + c) % 256], k - 1,
                  (v[k] + c) \div 256)

\* v + d for a small signed d (a byte, EOF, or a small literal)
OffAdd(v, d) == OffAddFrom(v, 8, d)

\* v << 8 (the top byte is shifted out)
OffShl8(v) == Tail(v) \o <<0>>

\* the off_t that holds a small int (the result of int -> off_t conversion)
OffOfInt(i) == OffAdd(IF i < 0 THEN OffMinusOne ELSE OffZero,
                      IF i < 0 THEN i + 1 ELSE i)

OffNeg(v) == v[1] >= 128

\* v < 256^k for a non-negative v
OffFits(v, k) == \A j \in 1..(8 - k) : v[j] = 0

Low2(v) == v[7] * 256 + v[8]

\* the int held by an off_t of at most 31 bits (or a small negative one)
OffInt(v) ==
  IF OffNeg(v)
  THEN (v[5] - 256) * 16777216 + v[6] * 65536 + v[7] * 256 + v[8]
  ELSE v[5] * 16777216 + v[6] * 65536 + v[7] * 256 + v[8]

(***************************************************************************)
(* An in-memory JFile read sequentially: get() returns the byte at the     *)
(* read position and advances, or EOF.                                     *)
(***************************************************************************)
MemFile(dat) == [dat |-> dat, pos |-> 0]

MemGet(f) ==
  IF f.pos < Len(f.dat)
  THEN [f |-> [f EXCEPT !.pos = @ + 1], r |-> f.dat[f.pos + 1]]
  ELSE [f |-> f, r |-> EOF]

(***************************************************************************)
(* JPatcht::ufGetInt: read a length from the patch file.                   *)
(* `large` is the build flag JDIFF_LARGEFILE.                              *)
(***************************************************************************)
RECURSIVE GetBytes(_, _)
\* liVal = (liVal << 8) + apFil.get(), k times; g holds the file and liVal
GetBytes(g, k) ==
  LET Got(n) == GetBytes([f |-> n.f, r |-> OffAdd(OffShl8(g.r), n.r)], k - 1)
  IN  IF k = 0 THEN g ELSE Got(MemGet(g.f))

\* the first byte of a multi-byte form
GetFirst(g) == [f |-> g.f, r |-> OffOfInt(g.r)]

ufGetInt_NoBias(f, large) ==
  LET Two(g1) == [f |-> g1.f, r |-> OffOfInt(252 + g1.r)]
      Got(g0) ==
        IF g0.r < 252 THEN [f |-> g0.f, r |-> OffOfInt(g0.r + 1)]
        ELSE IF g0.r = 252 THEN Two(MemGet(g0.f))
        ELSE IF g0.r = 253 THEN GetBytes(GetFirst(MemGet(g0.f)), 1)
        ELSE IF g0.r = 254 THEN GetBytes(GetFirst(MemGet(g0.f)), 3)
        ELSE IF large THEN GetBytes(GetFirst(MemGet(g0.f)), 7)
        ELSE [f |-> g0.f, r |-> OffOfInt(EXI_LRG)]
  IN  Got(MemGet(f))

ufGetInt(f, large) ==
  LET Two(g1) == [f |-> g1.f, r |-> OffOfInt(253 + g1.r)]
      Got(g0) ==
        IF g0.r < 252 THEN [f |-> g0.f, r |-> OffOfInt(g0.r + 1)]
        ELSE IF g0.r = 252 THEN Two(MemGet(g0.f))
        ELSE IF g0.r = 253 THEN GetBytes(GetFirst(MemGet(g0.f)), 1)
        ELSE IF g0.r = 254 THEN GetBytes(GetFirst(MemGet(g0.f)), 3)
        ELSE IF large THEN GetBytes(GetFirst(MemGet(g0.f)), 7)
        ELSE [f |-> g0.f, r |-> OffOfInt(EXI_LRG)]
  IN  Got(MemGet(f))

(***************************************************************************)
(* The length encoder.  The form is chosen as JOutRgn::ufPutLen chooses it *)
(* (JDefs.cpp); the bytes of each form are those of the length-encoding    *)
(* table of the specification, the writer itself not being part of this    *)
(* source tree.                                                            *)
(***************************************************************************)
ufPutLenForm(n, large) ==
  IF OffNeg(n) \/ (OffFits(n, 2) /\ Low2(n) <= 252) THEN 1
  ELSE IF OffFits(n, 2) /\ Low2(n) <= 508 THEN 2
  ELSE IF OffFits(n, 2) THEN 3
  ELSE IF large /\ ~OffFits(n, 4) THEN 8
  ELSE 4

ufPutLenBytes(n, large) ==
  LET form == ufPutLenForm(n, large)
  IN  IF form = 1 THEN <<OffAdd(n, -1)[8]>>
      ELSE IF form = 2 THEN <<252, Low2(n) - 253>>
      ELSE IF form = 3 THEN <<253, n[7], n[8]>>
      ELSE IF form = 4 THEN <<254, n[5], n[6], n[7], n[8]>>
      ELSE <<255>> \o n

(***************************************************************************)
(* JFileAhead: a JFile that reads an underlying stream in blocks of B      *)
(* bytes into a circular buffer of W bytes.                                *)
(*   dat, skb, fp : the underlying stream: content, whether it can seek,   *)
(*                  and its position                                       *)
(*   buf          : the circular buffer, indices 0..W-1                    *)
(*   inp          : mpInp - mpBuf                                          *)
(*   red          : mpRed - mpBuf (NullPtr for null)                       *)
(*   oob          : a block was read to an address outside the buffer      *)
(***************************************************************************)
MAX_OFF_T == 2147483647

NullPtr == -1

\* mlBufSze after the constructor's corrections
BufSzeOf(alBufSze, aiBlkSze) ==
  LET sze == IF alBufSze = 0 THEN 1024 ELSE alBufSze
      blk == IF aiBlkSze = 0 THEN 1 ELSE aiBlkSze
      algn == IF (sze % blk) # 0 THEN sze - (sze % blk) ELSE sze
  IN  IF algn = 0 THEN blk ELSE algn

\* JFileAhead::JFileAhead followed by JFile::chkSeq
JFileAhead(dat, alBufSze, aiBlkSze, abSeq, skb) ==
  LET W0 == BufSzeOf(alBufSze, aiBlkSze)
  IN  [dat |-> dat, skb |-> skb, fp |-> 0,
       seq |-> abSeq \/ ~skb,
       W |-> W0, B |-> IF aiBlkSze = 0 THEN 1 ELSE aiBlkSze,
       buf |-> [i \in 0..(W0 - 1) |-> 0],
       inp |-> 0, red |-> 0, usd |-> 0,
       posInp |-> 0,
       posEof |-> IF ~abSeq /\ skb THEN Len(dat) ELSE MAX_OFF_T,
       posRed |-> 0, posBse |-> 0, redSze |-> 0,
       sek |-> 0, oob |-> FALSE,
       rd |-> [lo |-> 0, hi |-> 0]]

getBufPos(f) == f.posInp - f.usd

set_lookahead_base(f, azBse) == [f EXCEPT !.posBse = azBse]

\* JFileAheadStdio::jseek: fseeko fails on a stream that cannot seek
jseek(f, azPos) ==
  IF f.skb /\ azPos >= 0
  THEN [f |-> [f EXCEPT !.fp = azPos], r |-> EXI_OK]
  ELSE [f |-> f, r |-> EXI_SEK]

\* JFileAheadStdio::jread: read up to aiLen bytes to buffer index apInp
jread(f, apInp, aiLen) ==
  LET avail == Max(0, Len(f.dat) - f.fp)
      n == Max(0, Min(aiLen, avail))
      bad == aiLen <= 0 \/ apInp < 0 \/ apInp + aiLen > f.W
  IN  [f |-> [f EXCEPT
                !.buf = [i \in DOMAIN f.buf |->
                           IF i >= apInp /\ i < apInp + n
                           THEN f.dat[f.fp + (i - apInp) + 1] ELSE f.buf[i]],
                !.fp = @ + n,
                !.oob = @ \/ bad,
                !.rd = [lo |-> IF @.hi = @.lo THEN f.fp ELSE @.lo,
                        hi |-> f.fp + n]],
       r |-> n]

Added == 0

RECURSIVE readblocksLoop(_, _, _, _, _)
readblocksLoop(f, apInp, azInp, azEnd, liDne) ==
  IF azInp > azEnd
  THEN [f |-> [f EXCEPT !.usd = Min(@, f.W)],
        inp |-> apInp, pos |-> azInp, r |-> liDne]
  ELSE LET inp1 == IF apInp = f.W THEN 0 ELSE apInp
           liTdo == IF apInp # f.W /\ f.W - apInp < f.B
                    THEN f.W - apInp ELSE f.B
           Done(j) ==
             IF j.r < liTdo
             THEN [f |-> [j.f EXCEPT !.posEof = azInp + j.r,
                                     !.usd = Min(@ + j.r, f.W)],
                   inp |-> inp1 + j.r, pos |-> azInp + j.r,
                   r |-> IF azEnd >= azInp + j.r THEN EOF ELSE j.r]
             ELSE readblocksLoop([j.f EXCEPT !.usd = @ + j.r], inp1 + j.r,
                                 azInp + j.r, azEnd, j.r)
       IN  Done(jread(f, inp1, liTdo))

\* JFileAhead::readblocks(apInp, azInp, azEnd)
readblocks(f, apInp, azInp, azEnd) == readblocksLoop(f, apInp, azInp, azEnd, 0)

\* readblocks on the members mpInp, mzPosInp (Reset and Append)
readblocksInp(f, azEnd) ==
  LET Done(rb) == [f |-> [rb.f EXCEPT !.inp = rb.inp, !.posInp = rb.pos],
                   r |-> IF rb.r = EOF THEN EOF ELSE Added]
  IN  Done(readblocks(f, f.inp, f.posInp, azEnd))

\* get_fromfile without the limit of the lookahead base
SekOf_NoBase(f, azPos, aiSft) ==
  IF azPos < f.posInp - f.usd
  THEN IF aiSft = "SoftAhead" THEN "EndOfBuffer"
       ELSE IF f.seq
       THEN (IF aiSft = "HardAhead" THEN "EndOfBuffer" ELSE "SeekError")
       ELSE IF azPos + f.W - f.B > f.posInp - f.usd THEN "Scrollback"
       ELSE "Reset"
  ELSE IF azPos >= f.posInp + f.W
  THEN IF aiSft = "SoftAhead" THEN "EndOfBuffer" ELSE "Reset"
  ELSE "Append"

\* get_fromfile that gives no seek error on a sequential file
SekOf_ReadEob(f, azPos, aiSft) ==
  IF azPos < f.posInp - f.usd
  THEN IF aiSft = "SoftAhead" THEN "EndOfBuffer"
       ELSE IF f.seq
       THEN "EndOfBuffer"
       ELSE IF azPos + f.W - f.B > f.posInp - f.usd THEN "Scrollback"
       ELSE "Reset"
  ELSE IF azPos >= f.posInp + f.W
  THEN IF aiSft = "SoftAhead" THEN "EndOfBuffer" ELSE "Reset"
  ELSE IF aiSft = "SoftAhead" /\ azPos > f.posBse + f.W - f.B
       THEN "EndOfBuffer"
       ELSE "Append"

\* what get_fromfile decides to do: an eBufOpr, or the eBufDne it returns
SekOf(f, azPos, aiSft) ==
  IF azPos < f.posInp - f.usd
  THEN IF aiSft = "SoftAhead" THEN "EndOfBuffer"
       ELSE IF f.seq
       THEN (IF aiSft = "HardAhead" THEN "EndOfBuffer" ELSE "SeekError")
       ELSE IF azPos + f.W - f.B > f.posInp - f.usd THEN "Scrollback"
       ELSE "Reset"
  ELSE IF azPos >= f.posInp + f.W
  THEN IF aiSft = "SoftAhead" THEN "EndOfBuffer" ELSE "Reset"
  ELSE IF aiSft = "SoftAhead" /\ azPos > f.posBse + f.W - f.B
       THEN "EndOfBuffer"
       ELSE "Append"

\* the seek position of a Reset
resetPos(f, azPos) ==
  IF ~f.seq THEN (azPos \div f.B) * f.B
  ELSE ((azPos - f.W + f.B) \div f.B) * f.B

fromfileReset(f, azPos) ==
  LET Sought(s) ==
        IF s.r # EXI_OK THEN [f |-> s.f, r |-> EXI_SEK]
        ELSE readblocksInp([s.f EXCEPT !.sek = @ + 1], azPos)
  IN  Sought(jseek([f EXCEPT !.posInp = resetPos(f, azPos), !.inp = 0,
                             !.posBse = resetPos(f, azPos), !.usd = 0],
                   resetPos(f, azPos)))

fromfileAppend(f, azPos) == readblocksInp(f, azPos)

\* Scrollback, after room has been made: seek, read, seek
scrollbackRead(f, lpInp, lzPos) ==
  LET Back(s2) ==
        IF s2.r # EXI_OK THEN [f |-> s2.f, r |-> EXI_SEK]
        ELSE [f |-> [s2.f EXCEPT !.sek = @ + 1], r |-> Added]
      Red(rb) ==
        IF rb.r = EOF
        THEN [f |-> [rb.f EXCEPT !.inp = rb.inp, !.posInp = rb.pos,
                                 !.usd = EOF],
              r |-> EXI_RED]
        ELSE Back(jseek(rb.f, rb.f.posInp))
      Sought(s1) ==
        IF s1.r # EXI_OK THEN [f |-> s1.f, r |-> EXI_SEK]
        ELSE Red(readblocks([s1.f EXCEPT !.sek = @ + 1], lpInp, lzPos,
                            s1.f.posInp - s1.f.usd - 1))
  IN  Sought(jseek(f, lzPos))

\* a window that is thrown away and filled again from the block of azPos
fromfileScrollback_Reset(f, azPos) == fromfileReset(f, azPos)

fromfileScrollback(f, azPos) ==
  LET lzPos == (azPos \div f.B) * f.B
      lzLen == f.posInp - lzPos
      lpInp0 == IF lzLen > f.inp THEN f.inp - lzLen + f.W ELSE f.inp - lzLen
      lpInp == IF lzLen - f.W > f.inp THEN lpInp0 + f.W ELSE lpInp0
  IN  IF lzLen > f.W
      THEN scrollbackRead([f EXCEPT !.usd = @ - (lzLen - f.W),
                                    !.posInp = lzPos + f.W, !.inp = lpInp],
                          lpInp, lzPos)
      ELSE scrollbackRead(f, lpInp0, lzPos)

\* JFileAhead::get_fromfile
get_fromfile(f, azPos, aiSft) ==
  LET Do(liSek) ==
        IF liSek = "Reset" THEN fromfileReset(f, azPos)
        ELSE IF liSek = "Append" THEN fromfileAppend(f, azPos)
        ELSE IF liSek = "Scrollback" THEN fromfileScrollback(f, azPos)
        ELSE IF liSek = "SeekError" THEN [f |-> f, r |-> EXI_SEK]
        ELSE [f |-> f, r |-> EOB]
  IN  Do(SekOf(f, azPos, aiSft))

\* the address of azPos in the buffer, and the bytes available from there
bufAddr(f, azPos) ==
  IF f.posInp - azPos <= f.inp
  THEN [f |-> f, p |-> f.inp - (f.posInp - azPos), len |-> f.posInp - azPos]
  ELSE [f |-> f, p |-> f.inp + f.W - (f.posInp - azPos),
        len |-> (f.posInp - azPos) - f.inp]

\* JFileAhead::getbuf: p is the buffer index (NullPtr = null), len is azLen
getbuf(f, azPos, aiSft) ==
  LET Got(g) == IF g.r = Added THEN bufAddr(g.f, azPos)
                ELSE [f |-> g.f, p |-> NullPtr, len |-> g.r]
  IN  IF azPos >= f.posEof THEN [f |-> f, p |-> NullPtr, len |-> EOF]
      ELSE IF azPos < f.posInp /\ azPos >= f.posInp - f.usd
      THEN bufAddr(f, azPos)
      ELSE Got(get_fromfile(f, azPos, aiSft))

\* JFileAhead::get_frombuffer
get_frombuffer(f, azPos, aiSft) ==
  LET Got(b) ==
        IF b.p = NullPtr
        THEN [f |-> [b.f EXCEPT !.posRed = -1, !.red = NullPtr, !.redSze = 0],
              r |-> b.len]
        ELSE [f |-> [b.f EXCEPT !.posRed = azPos + 1, !.redSze = b.len - 1,
                                !.red = IF b.p + 1 = b.f.W THEN 0 ELSE b.p + 1],
              r |-> b.f.buf[b.p]]
  IN  Got(getbuf(f, azPos, aiSft))

\* JFile::get(azPos, aiSft)
get(f, azPos, aiSft) ==
  IF azPos = f.posRed /\ f.redSze > 0
  THEN [f |-> [f EXCEPT !.posRed = @ + 1, !.redSze = @ - 1, !.red = @ + 1],
        r |-> f.buf[f.red]]
  ELSE get_frombuffer(f, azPos, aiSft)

\* JFile::get(aiSft): the next byte
getNext(f, aiSft) == get(f, f.posRed, aiSft)

(***************************************************************************)
(* JFileOut: the output file is the sequence of bytes written so far.      *)
(***************************************************************************)
\* JFileOut::putc: fputc writes its argument converted to unsigned char
putc(out, aiDta) == Append(out, aiDta % 256)

\* fwrite of azLen buffer bytes starting at buffer index p
fwriteBuf(out, f, p, azLen) == out \o [i \in 1..azLen |-> f.buf[p + i - 1]]

RECURSIVE copyBuffered(_, _, _, _)
\* the buffered loop of copyfrom; b is the last result of getbuf
copyBuffered(out, b, azPos, azLen) ==
  IF azLen <= 0 THEN [out |-> out, f |-> b.f, r |-> EXI_OK]
  ELSE IF b.p = NullPtr THEN [out |-> out, f |-> b.f, r |-> EXI_RED]
  ELSE IF b.len >= azLen
  THEN [out |-> fwriteBuf(out, b.f, b.p, azLen), f |-> b.f, r |-> EXI_OK]
  ELSE copyBuffered(fwriteBuf(out, b.f, b.p, b.len),
                    getbuf(b.f, azPos + b.len, "Read"),
                    azPos + b.len, azLen - b.len)

RECURSIVE copyBytes(_, _, _, _)
\* the byte-by-byte loop of copyfrom
copyBytes(out, f, azPos, azLen) ==
  LET Skip(byte, n) == copyBytes(putc(out, byte), n.f, azPos + 1, azLen - 1)
      Got(g) == IF g.r <= EOF THEN [out |-> out, f |-> g.f, r |-> EXI_RED]
                ELSE Skip(g.r, getNext(g.f, "Read"))
  IN  IF azLen <= 0 THEN [out |-> out, f |-> f, r |-> EXI_OK]
      ELSE Got(get(f, azPos, "Read"))

\* JFileOut::copyfrom
copyfrom(out, f, azPos, azLen) ==
  LET Got(b) == IF b.p # NullPtr THEN copyBuffered(out, b, azPos, azLen)
                ELSE copyBytes(out, b.f, azPos, azLen)
  IN  Got(getbuf(f, azPos, "Read"))

(***************************************************************************)
(* JPatcht: the patch decoder.                                             *)
(***************************************************************************)
Opcodes == {DEL, EQL, BKT, MOD, INS}

\* JPatcht::ufPutDta
ufPutDta(out, aiDta) == putc(out, aiDta)

\* ufGetDta, the pending bytes of the start of a run
dtaPending_Both(out, liPnd, liDbl) ==
  IF liPnd = EOF THEN out
  ELSE IF liPnd = ESC THEN ufPutDta(ufPutDta(out, liPnd), liDbl)
  ELSE ufPutDta(out, liPnd)

dtaPending(out, liPnd, liDbl) ==
  IF liPnd = EOF THEN out
  ELSE IF liPnd = ESC /\ liDbl # ESC THEN ufPutDta(ufPutDta(out, liPnd), liDbl)
  ELSE ufPutDta(out, liPnd)

\* ufGetDta, ESC <xxx> with <xxx> not an opcode: both bytes are data
dtaEscXxx_Drop(out, liInp, liNew) == out

dtaEscXxx(out, liInp, liNew) == ufPutDta(ufPutDta(out, liInp), liNew)

RECURSIVE ufGetDtaLoop(_, _, _, _)
\* the read loop of ufGetDta
ufGetDtaLoop(pch, out, liOpr, lzMod) ==
  LET Esc(n) ==
        IF n.r = ESC
        THEN ufGetDtaLoop(n.f, ufPutDta(out, ESC), liOpr, lzMod + 1)
        ELSE IF n.r \notin Opcodes
        THEN ufGetDtaLoop(n.f, dtaEscXxx(out, ESC, n.r), liOpr, lzMod + 2)
        ELSE IF n.r = liOpr
        THEN ufGetDtaLoop(n.f, ufPutDta(ufPutDta(out, ESC), n.r), liOpr,
                          lzMod + 2)
        ELSE [pch |-> n.f, out |-> out, r |-> n.r, mod |-> lzMod]
      Got(g) ==
        IF g.r = EOF THEN [pch |-> g.f, out |-> out, r |-> EOF, mod |-> lzMod]
        ELSE IF g.r # ESC
        THEN ufGetDtaLoop(g.f, ufPutDta(out, g.r), liOpr, lzMod + 1)
        ELSE Esc(MemGet(g.f))
  IN  Got(MemGet(pch))

\* JPatcht::ufGetDta
ufGetDta(pch, out, liOpr, liPnd, liDbl) ==
  LET Run(out1) == ufGetDtaLoop(pch, out1, liOpr, Len(out1) - Len(out))
  IN  Run(dtaPending(out, liPnd, liDbl))

\* jpatch, reading the operator of the next record; stop is "no" to go on,
\* "break" at the end of the patch, "err" for the trailing-byte error
jpatchOpr(p) ==
  LET Esc(d) ==
        IF d.r \in Opcodes
        THEN [pch |-> d.f, liOpr |-> d.r, liInp |-> EOF, liDbl |-> EOF,
              stop |-> "no"]
        ELSE IF d.r = EOF
        THEN [pch |-> d.f, liOpr |-> 0, liInp |-> ESC, liDbl |-> d.r,
              stop |-> "err"]
        ELSE [pch |-> d.f, liOpr |-> MOD, liInp |-> ESC, liDbl |-> d.r,
              stop |-> "no"]
      Got(g) ==
        IF g.r = EOF
        THEN [pch |-> g.f, liOpr |-> 0, liInp |-> EOF, liDbl |-> EOF,
              stop |-> "break"]
        ELSE IF g.r # ESC
        THEN [pch |-> g.f, liOpr |-> MOD, liInp |-> g.r, liDbl |-> EOF,
              stop |-> "no"]
        ELSE Esc(MemGet(g.f))
  IN  IF p.liOpr # 0
      THEN [pch |-> p.pch, liOpr |-> p.liOpr, liInp |-> EOF, liDbl |-> EOF,
            stop |-> "no"]
      ELSE Got(MemGet(p.pch))

\* jpatch, MOD and INS
jpatchData(p, o) ==
  LET Done(d) ==
        [p EXCEPT !.pch = d.pch, !.out = d.out, !.liOpr = d.r,
                  !.lzPosOrg = IF o.liOpr = MOD THEN @ + d.mod ELSE @,
                  !.lzPosOut = @ + d.mod,
                  !.pc = IF d.r = EOF THEN "done" ELSE "run"]
  IN  Done(ufGetDta(o.pch, p.out, o.liOpr, o.liInp, o.liDbl))

\* jpatch, EQL, once its length is known
jpatchEql(p, pch, lzOff) ==
  LET Done(c) ==
        IF c.r # EXI_OK
        THEN [p EXCEPT !.pch = pch, !.org = c.f, !.out = c.out,
                       !.pc = "done", !.ret = c.r]
        ELSE [p EXCEPT !.pch = pch, !.org = c.f, !.out = c.out,
                       !.lzPosOrg = @ + lzOff, !.lzPosOut = @ + lzOff,
                       !.liOpr = 0]
  IN  Done(copyfrom(p.out, p.org, p.lzPosOrg, lzOff))

\* jpatch, DEL, EQL and BKT
jpatchLen(p, o) ==
  LET Do(pch, lzOff) ==
        IF lzOff < 0 THEN [p EXCEPT !.pch = pch, !.pc = "done", !.ret = lzOff]
        ELSE IF o.liOpr = DEL
        THEN [p EXCEPT !.pch = pch, !.lzPosOrg = @ + lzOff, !.liOpr = 0]
        ELSE IF o.liOpr = BKT
        THEN [p EXCEPT !.pch = pch, !.lzPosOrg = @ - lzOff, !.liOpr = 0]
        ELSE jpatchEql(p, pch, lzOff)
      Got(i) == Do(i.f, OffInt(i.r))
  IN  Got(ufGetInt(o.pch, p.large))

\* JPatcht::jpatch, one turn of its loop
jpatchTurn(p) ==
  LET Do(o) ==
        IF o.stop = "break" THEN [p EXCEPT !.pch = o.pch, !.pc = "done"]
        ELSE IF o.stop = "err"
        THEN [p EXCEPT !.pch = o.pch, !.pc = "done", !.ret = EXI_ERR]
        ELSE IF o.liOpr \in {MOD, INS} THEN jpatchData(p, o)
        ELSE jpatchLen(p, o)
  IN  Do(jpatchOpr(p))

(***************************************************************************)
(* Operation sequences.  An operation is a record [op, len, dat]: a length *)
(* for EQL, DEL and BKT, data bytes for MOD and INS.                       *)
(***************************************************************************)
LenOp(o, n) == [op |-> o, len |-> n, dat |-> <<>>]

DtaOp(o, d) == [op |-> o, len |-> Len(d), dat |-> d]

RECURSIVE ReplayFrom(_, _, _, _, _)
\* the decoder semantics of an operation sequence on a source S
ReplayFrom(S, ops, k, org, out) ==
  IF k > Len(ops) THEN [out |-> out, org |-> org, ok |-> TRUE]
  ELSE LET o == ops[k]
       IN  IF o.op = EQL
           THEN IF org < 0 \/ org + o.len > Len(S)
                THEN [out |-> out, org |-> org, ok |-> FALSE]
                ELSE ReplayFrom(S, ops, k + 1, org + o.len,
                                out \o SubSeq(S, org + 1, org + o.len))
           ELSE IF o.op = MOD
           THEN ReplayFrom(S, ops, k + 1, org + Len(o.dat), out \o o.dat)
           ELSE IF o.op = INS
           THEN ReplayFrom(S, ops, k + 1, org, out \o o.dat)
           ELSE IF o.op = DEL
           THEN ReplayFrom(S, ops, k + 1, org + o.len, out)
           ELSE IF o.op = BKT
           THEN ReplayFrom(S, ops, k + 1, org - o.len, out)
           ELSE ReplayFrom(S, ops, k + 1, org, out)

Replay(S, ops) == ReplayFrom(S, ops, 1, 0, <<>>)

\* no data run directly follows a data run of the same kind
Coalesced(ops) ==
  \A k \in 1..(Len(ops) - 1) :
    ops[k].op \in {MOD, INS} => ops[k + 1].op # ops[k].op

(***************************************************************************)
(* The patch writer, after the patch stream grammar: ESC <op> then a       *)
(* length or a byte run in which every ESC is doubled.  The leading        *)
(* ESC MOD may be left out; `term` appends the bytes ESC 0x00.             *)
(***************************************************************************)
RECURSIVE escData(_)
escData(d) ==
  IF d = <<>> THEN <<>>
  ELSE (IF Head(d) = ESC THEN <<ESC, ESC>> ELSE <<Head(d)>>) \o escData(Tail(d))

patchOp(o, large) ==
  IF o.op \in {MOD, INS} THEN <<ESC, o.op>> \o escData(o.dat)
  ELSE <<ESC, o.op>> \o ufPutLenBytes(OffOfInt(o.len), large)

RECURSIVE patchOps(_, _)
patchOps(ops, large) ==
  IF ops = <<>> THEN <<>>
  ELSE patchOp(Head(ops), large) \o patchOps(Tail(ops), large)

patchOf(ops, impl, term, large) ==
  LET body == patchOps(ops, large)
      lead == IF impl /\ ops # <<>> /\ ops[1].op = MOD /\ ops[1].dat # <<>>
              THEN SubSeq(body, 3, Len(body)) ELSE body
  IN  lead \o (IF term THEN <<ESC, 0>> ELSE <<>>)

(***************************************************************************)
(* The rolling hash (JDiff::hash) and the index of source positions        *)
(* (JHashPos).  A hash key (hkey, taken as the 32-bit unsigned long) is    *)
(* the pair of its 16-bit halves <<high, low>>.                            *)
(***************************************************************************)
SMPSZE == 32

SizeofHkey == 4

SizeofOffT == 8

COLLISION_THRESHOLD == 4

COLLISION_HIGH == 4

COLLISION_LOW == 1

HshZero == <<0, 0>>

\* (akCurHsh * 2) + v in hkey arithmetic, v a small int that may be negative
HshShiftAdd(h, v) ==
  <<(h[1] * 2 + ((h[2] * 2 + v) \div 65536)) % 65536, (h[2] * 2 + v) % 65536>>

\* akCurHsh % p for a prime p below 2^23
HshMod(h, p) == (((((h[1] * 256) % p) * 256) % p) + h[2]) % p

\* hash that counts the equal bytes without end
hash_Count(akCurHsh, acOld, acNew, aiEql) ==
  [h |-> HshShiftAdd(akCurHsh, acNew + (IF acOld = acNew THEN aiEql + 1
                                        ELSE 0)),
   old |-> acNew, eql |-> IF acOld = acNew THEN aiEql + 1 ELSE 0]

\* JDiff::hash: the new key, and acOld and aiEql as it leaves them
hash(akCurHsh, acOld, acNew, aiEql) ==
  LET Out(e) == [h |-> HshShiftAdd(akCurHsh, acNew + e), old |-> acNew,
                 eql |-> e]
  IN  Out(IF acOld = acNew
          THEN (IF aiEql < SMPSZE THEN aiEql + 1 ELSE aiEql)
          ELSE 0)

isPrime(number) ==
  IF number < 2 THEN FALSE
  ELSE IF number = 2 THEN TRUE
  ELSE IF number % 2 = 0 THEN FALSE
  ELSE \A i \in 3..(CHOOSE k \in 2..46341 : k * k > number) :
         (i % 2 = 1 /\ number \div i >= i) => number % i # 0

RECURSIVE getLowerPrime(_)
getLowerPrime(aiNum) ==
  IF aiNum = 1024 THEN 1021
  ELSE IF aiNum = 32 * 1024 * 1024 THEN 33554393
  ELSE IF aiNum = 16 * 1024 * 1024 THEN 16777213
  ELSE IF aiNum = 8 * 1024 * 1024 THEN 8388593
  ELSE IF aiNum = 128 * 1024 * 1024 THEN 134217689
  ELSE IF aiNum = 512 * 1024 * 1024 THEN 536870909
  ELSE IF aiNum <= 0 THEN aiNum
  ELSE IF isPrime(aiNum) THEN aiNum
  ELSE getLowerPrime(aiNum - 1)

\* no key is equal to the content of a slot that was read before any write
\* and found different
Garbled == <<-1, -1>>

\* liSzeIdx * 1024 * 1024 does not fit the int it is computed in
MbOverflows(liSzeIdx) == liSzeIdx > 2147483647 \div (1024 * 1024)

\* what a signed overflow, which is undefined, makes of the product: the
\* low 32 bits of it, or the product itself in a register of 64 bits
IntOverflows == {"wrapped", "widened"}

\* the 64-bit unsigned number of the 16-bit limbs l (high to low) divided by
\* d, converted to int
DivToInt(l, d) ==
  LET r3 == l[1] % d
      r2 == (r3 * 65536 + l[2]) % d
      q1 == (r2 * 65536 + l[3]) \div d
      r1 == (r2 * 65536 + l[3]) % d
      q0 == (r1 * 65536 + l[4]) \div d
  IN  IF q1 >= 32768 THEN (q1 - 65536) * 65536 + q0 ELSE q1 * 65536 + q0

\* (liSzeIdx * 1024 * 1024) / (sizeof(hkey) + sizeof(off_t)), assigned to an
\* int: the product is an int that is converted to size_t for the division
MbElements(liSzeIdx, ovf) ==
  LET hi == ((liSzeIdx % 4096) * 16) % 65536
      sgn == IF hi >= 32768 THEN 65535 ELSE 0
  IN  IF ~MbOverflows(liSzeIdx)
      THEN (liSzeIdx * 1048576) \div (SizeofOffT + SizeofHkey)
      ELSE IF ovf = "wrapped"
      THEN DivToInt(<<sgn, sgn, hi, 0>>, SizeofOffT + SizeofHkey)
      ELSE DivToInt(<<liSzeIdx \div 268435456, (liSzeIdx \div 4096) % 65536,
                      hi, 0>>, SizeofOffT + SizeofHkey)

\* JHashPos::JHashPos.  The table is allocated and not initialised: tbl
\* holds the slots whose content is known, and junk tells which read of an
\* unwritten slot (the at-th, none if 0) finds the key it looks for, with
\* position junk.pos
\* lst is a history variable: the arguments of the last call of add; so is
\* sto: miHshColMax at the last call of add that stored, and the number of
\* calls since.  ovf is what an overflow of the size makes of it
JHashPos(aiSze, junk, ovf) ==
  LET Make(p) ==
        [pme |-> p, colMax |-> COLLISION_THRESHOLD,
         colCnt |-> COLLISION_THRESHOLD, rlb |-> SMPSZE + SMPSZE \div 2,
         lodCnt |-> p, hit |-> 0, tbl |-> [i \in {} |-> 0], junk |-> junk,
         lst |-> [hsh |-> HshZero, pos |-> -1, eql |-> 0],
         sto |-> [max |-> COLLISION_THRESHOLD, n |-> 0]]
  IN  Make(getLowerPrime(MbElements(IF aiSze < 1 THEN 1 ELSE aiSze, ovf)))

HshPut(t, idx, e) == [x \in DOMAIN t \cup {idx} |-> IF x = idx THEN e ELSE t[x]]

\* add that lowers the collision threshold when the load count wraps
JHashPos_add_Lower(hp, akCurHsh, azPos, aiEqlCnt) ==
  LET Store(h2) ==
        IF h2.colCnt <= 0
        THEN [h2 EXCEPT !.tbl = HshPut(@, HshMod(akCurHsh, h2.pme),
                                       [hsh |-> akCurHsh, pos |-> azPos]),
                        !.colCnt = h2.colMax,
                        !.sto = [max |-> h2.colMax, n |-> 0]]
        ELSE [h2 EXCEPT !.sto.n = @ + 1]
      Cnt(h1) ==
        Store([h1 EXCEPT !.colCnt = @ - (IF aiEqlCnt <= SMPSZE * 2
                                         THEN COLLISION_HIGH
                                         ELSE COLLISION_LOW)])
      Arg == [hsh |-> akCurHsh, pos |-> azPos, eql |-> aiEqlCnt]
  IN  Cnt(IF hp.lodCnt > 0 THEN [hp EXCEPT !.lodCnt = @ - 1, !.lst = Arg]
          ELSE [hp EXCEPT !.lodCnt = hp.pme, !.lst = Arg,
                          !.colMax = @ - COLLISION_THRESHOLD,
                          !.rlb = @ + 4])

\* JHashPos::add
JHashPos_add(hp, akCurHsh, azPos, aiEqlCnt) ==
  LET Store(h2) ==
        IF h2.colCnt <= 0
        THEN [h2 EXCEPT !.tbl = HshPut(@, HshMod(akCurHsh, h2.pme),
                                       [hsh |-> akCurHsh, pos |-> azPos]),
                        !.colCnt = h2.colMax,
                        !.sto = [max |-> h2.colMax, n |-> 0]]
        ELSE [h2 EXCEPT !.sto.n = @ + 1]
      Cnt(h1) ==
        Store([h1 EXCEPT !.colCnt = @ - (IF aiEqlCnt <= SMPSZE * 2
                                         THEN COLLISION_HIGH
                                         ELSE COLLISION_LOW)])
      Arg == [hsh |-> akCurHsh, pos |-> azPos, eql |-> aiEqlCnt]
  IN  Cnt(IF hp.lodCnt > 0 THEN [hp EXCEPT !.lodCnt = @ - 1, !.lst = Arg]
          ELSE [hp EXCEPT !.lodCnt = hp.pme, !.lst = Arg,
                          !.colMax = @ + COLLISION_THRESHOLD,
                          !.rlb = @ + 4])

\* JHashPos::reset
JHashPos_reset(hp) ==
  [hp EXCEPT !.lodCnt = hp.pme, !.colMax = COLLISION_THRESHOLD,
             !.colCnt = COLLISION_THRESHOLD, !.rlb = SMPSZE + SMPSZE \div 2,
             !.sto = [max |-> COLLISION_THRESHOLD, n |-> 0]]

\* the read of a slot that was never written
readUnwritten(hp, akCurHsh, liIdx) ==
  IF hp.junk.at = 1
  THEN [hp |-> [hp EXCEPT !.hit = @ + 1,
                          !.junk = [@ EXCEPT !.at = 0],
                          !.tbl = HshPut(@, liIdx, [hsh |-> akCurHsh,
                                                    pos |-> hp.junk.pos])],
        found |-> TRUE, pos |-> hp.junk.pos]
  ELSE [hp |-> [hp EXCEPT !.junk = [@ EXCEPT !.at = Max(0, @ - 1)],
                          !.tbl = HshPut(@, liIdx, [hsh |-> Garbled,
                                                    pos |-> 0])],
        found |-> FALSE, pos |-> 0]

\* JHashPos::get
JHashPos_get(hp, akCurHsh) ==
  LET At(liIdx) ==
        IF liIdx \notin DOMAIN hp.tbl THEN readUnwritten(hp, akCurHsh, liIdx)
        ELSE IF hp.tbl[liIdx].hsh = akCurHsh
        THEN [hp |-> [hp EXCEPT !.hit = @ + 1], found |-> TRUE,
              pos |-> hp.tbl[liIdx].pos]
        ELSE [hp |-> hp, found |-> FALSE, pos |-> 0]
  IN  At(HshMod(akCurHsh, hp.pme))

get_reliability(hp) == hp.rlb

(***************************************************************************)
(* JMatchTable: the table of candidate equal regions.  A pointer to a      *)
(* match is its index in msMch; NullPtr is null, JunkPtr is the content    *)
(* of an ipNxt that was never assigned.  mpCol and mpGld hold the heads    *)
(* that are not null.  ub records that a junk pointer was followed.        *)
(***************************************************************************)
EQLSZE == 8

EQLMIN == 4

EQLMAX == 256

MAXDST == 2 * 1024 * 1024

MINDST == 1024

FZY == 0

CMPINV == -1

CMPSKP == -2

CMPEOB == -3

JunkPtr == -2

abs(a) == IF a < 0 THEN -a ELSE a

\* JMatchTable::JMatchTable; reu is a history variable: add has reused an
\* old match
JMatchTable(aiMchSze, abCmpAll, aiAhdMax) ==
  [miMchSze |-> IF aiMchSze < 13 THEN 13 ELSE aiMchSze,
   miMchFre |-> IF aiMchSze < 13 THEN 13 ELSE aiMchSze,
   miMchPme |-> getLowerPrime(aiMchSze * 2),
   msMch |-> [i \in {} |-> 0], mpCol |-> [i \in {} |-> 0],
   mpGld |-> [i \in {} |-> 0],
   mpOld |-> NullPtr, mpNew |-> NullPtr, mpLst |-> NullPtr,
   mpBst |-> NullPtr, mzBstOrg |-> 0, mzBstNew |-> 0, miBstCmp |-> 0,
   mzOld |-> 0, mbCmpAll |-> abCmpAll, miAhdMax |-> aiAhdMax, miRlb |-> 0,
   miHshRpr |-> 0, ub |-> FALSE, reu |-> FALSE, err |-> FALSE,
   rbs |-> FALSE]

\* the head of a bucket
headOf(tbl, liIdx) == IF liIdx \in DOMAIN tbl THEN tbl[liIdx] ELSE NullPtr

\* JMatchTable::calcPosOrg
calcPosOrg(r, azTstNew) ==
  IF r.iiGld > 0 /\ azTstNew >= r.izBeg
  THEN [gld |-> TRUE, org |-> r.izOrg, new |-> azTstNew]
  ELSE IF azTstNew + r.izDlt >= 0
  THEN [gld |-> FALSE, org |-> azTstNew + r.izDlt, new |-> azTstNew]
  ELSE [gld |-> FALSE, org |-> 0, new |-> -r.izDlt]

\* isBest, the potential of a match whose compare reached the end of buffer
eobPotential(r, miRlb, lzTstOrg, lzTstNew) ==
  LET Fin(e) ==
        [e EXCEPT !.cmp = IF e.cmp < 1 THEN 1
                          ELSE 1 + Min(EQLMAX, e.cmp) \div 2]
      Aged(liCurCnt, c) ==
        [cmp |-> c, org |-> lzTstOrg + (liCurCnt - c),
         new |-> lzTstNew + (liCurCnt - c), cnt |-> liCurCnt]
      Near(liCurCnt, lzDst) ==
        [cmp |-> liCurCnt, org |-> lzTstOrg + lzDst, new |-> lzTstNew + lzDst,
         cnt |-> liCurCnt]
      At(liCurCnt) ==
        IF lzTstNew <= r.izBeg
        THEN [cmp |-> liCurCnt, org |-> r.izOrg, new |-> r.izBeg,
              cnt |-> liCurCnt]
        ELSE IF lzTstNew <= r.izNew + miRlb
        THEN Near(liCurCnt, 1 + miRlb - Min(miRlb, r.iiCnt))
        ELSE Aged(liCurCnt, liCurCnt - 1
                            - ((lzTstNew - r.izNew) \div (miRlb \div 8)))
  IN  Fin(At(IF r.iiGld > 0 THEN 1 + r.iiCnt \div 2 ELSE r.iiCnt))

\* the hash counter of a match, halved for a gliding one
hashCount(r) == IF r.iiGld > 0 THEN r.iiCnt \div 2 ELSE r.iiCnt

\* isBest, the election: does the candidate e replace the best match
elected(m, lpCur, e) ==
  IF m.mpBst = NullPtr THEN TRUE
  ELSE IF e.cmp < 2 /\ m.miBstCmp > 4 THEN FALSE
  ELSE IF m.miBstCmp < 2 /\ e.cmp > 4 THEN TRUE
  ELSE IF e.new + FZY < m.mzBstNew THEN TRUE
  ELSE IF e.new <= m.mzBstNew + FZY
  THEN IF e.new - e.cmp < m.mzBstNew - m.miBstCmp THEN TRUE
       ELSE IF e.new - e.cmp = m.mzBstNew - m.miBstCmp
       THEN (IF e.cnt < 0 THEN hashCount(m.msMch[lpCur]) ELSE e.cnt)
              > hashCount(m.msMch[m.mpBst])
       ELSE FALSE
  ELSE FALSE

\* isBest, the state of the best match once lpCur is (or stays) the best
bestIs(m, lpCur, azRedNew, e) ==
  [m EXCEPT !.mpBst = lpCur, !.mzBstNew = e.new, !.mzBstOrg = e.org,
            !.miBstCmp = e.cmp,
            !.mzOld = Max(azRedNew, m.msMch[lpCur].izTst
                                    + Min(0, m.msMch[lpCur].iiCmp)
                                    - m.miRlb)]

\* JMatchTable::isBest
isBest(m, lpCur, azRedNew, lzTstOrg, lzTstNew, liCurCmp) ==
  LET Elect(m1, e) ==
        IF e.cmp > 0 /\ (IF elected(m1, lpCur, e) THEN TRUE
                         ELSE m1.mpBst = lpCur)
        THEN bestIs(m1, lpCur, azRedNew, e)
        ELSE m1
      Eob(e) ==
        Elect(IF e.cmp > 3 THEN [m EXCEPT !.msMch[lpCur].iiCmp = -e.cmp]
              ELSE m, e)
  IN  IF liCurCmp <= CMPEOB
      THEN Eob(eobPotential(m.msMch[lpCur], m.miRlb, lzTstOrg, lzTstNew))
      ELSE Elect(m, [cmp |-> liCurCmp, org |-> lzTstOrg, new |-> lzTstNew,
                     cnt |-> -1])

\* JMatchTable::isOld2Skip
isOld2Skip(r, azRedNew) ==
  IF r.iiCmp = CMPSKP THEN TRUE
  ELSE IF r.iiCmp = CMPINV \/ r.iiCmp = 0 THEN r.izNew + MAXDST <= azRedNew
  ELSE r.izNew + MAXDST <= azRedNew /\ r.izTst + abs(r.iiCmp) < azRedNew

\* JMatchTable::isOld2Reuse
isOld2Reuse(m, lpCur) ==
  LET Of(r) ==
        IF r.iiCmp = CMPSKP \/ r.iiCmp = CMPINV THEN TRUE
        ELSE IF r.iiCmp = CMPEOB
        THEN lpCur # m.mpBst /\ r.izNew < m.mzOld
        ELSE IF r.iiCmp = 0 THEN r.izNew < r.izTst \/ r.izNew < m.mzOld
        ELSE lpCur # m.mpBst /\ r.izNew < m.mzOld
             /\ r.izTst + abs(r.iiCmp) < m.mzOld
  IN  Of(m.msMch[lpCur])

\* JMatchTable::addNew
addNew(m, lpCur) ==
  IF m.mpNew = NullPtr THEN [m EXCEPT !.mpNew = lpCur, !.mpLst = lpCur]
  ELSE [m EXCEPT !.msMch[m.mpLst].ipNxt = lpCur, !.mpLst = lpCur]

\* delGld, the walk along the gliding chain
RECURSIVE unlinkGld(_, _, _)
unlinkGld(m, lpGld, apGld) ==
  IF lpGld = NullPtr THEN m
  ELSE IF m.msMch[lpGld].ipGld = apGld
  THEN [m EXCEPT !.msMch[lpGld].ipGld = m.msMch[apGld].ipGld]
  ELSE unlinkGld(m, m.msMch[lpGld].ipGld, apGld)

\* delGld that leaves the match on its chain
delGld_Keep(m, apGld) == m

\* JMatchTable::delGld
delGld(m, apGld) ==
  LET At(liIdx) ==
        IF headOf(m.mpGld, liIdx) = apGld
        THEN [m EXCEPT !.mpGld = HshPut(m.mpGld, liIdx, m.msMch[apGld].ipGld)]
        ELSE unlinkGld(m, headOf(m.mpGld, liIdx), apGld)
  IN  At(m.msMch[apGld].izOrg % m.miMchPme)

\* delCol, the walk along the colliding chain
RECURSIVE unlinkCol(_, _, _)
unlinkCol(m, lpCol, apCol) ==
  IF lpCol = NullPtr THEN m
  ELSE IF m.msMch[lpCol].ipCol = apCol
  THEN [m EXCEPT !.msMch[lpCol].ipCol = m.msMch[apCol].ipCol]
  ELSE unlinkCol(m, m.msMch[lpCol].ipCol, apCol)

\* JMatchTable::delCol
delCol(m, apCol) ==
  LET At(liIdx) ==
        IF headOf(m.mpCol, liIdx) = apCol
        THEN [m EXCEPT !.mpCol = HshPut(m.mpCol, liIdx, m.msMch[apCol].ipCol)]
        ELSE unlinkCol(m, headOf(m.mpCol, liIdx), apCol)
  IN  At(abs(m.msMch[apCol].izDlt) % m.miMchPme)

\* the successor of a match on the aging list; following an ipNxt that was
\* never assigned is undefined and is recorded in ub
nxtOf(m, lpCur) ==
  IF m.msMch[lpCur].ipNxt = JunkPtr THEN NullPtr ELSE m.msMch[lpCur].ipNxt

followed(m, lpCur) ==
  IF m.msMch[lpCur].ipNxt = JunkPtr THEN [m EXCEPT !.ub = TRUE] ELSE m

\* nextold, the first loop: matches that are not old go to the new list
RECURSIVE keepFresh(_)
keepFresh(m) ==
  IF m.mpOld = NullPtr THEN m
  ELSE IF isOld2Reuse(m, m.mpOld) THEN m
  ELSE keepFresh(addNew([followed(m, m.mpOld) EXCEPT
                            !.mpOld = nxtOf(m, m.mpOld)], m.mpOld))

\* nextold, the second loop: new invalid matches are reactivated or reused
RECURSIVE reuseInvalid(_, _)
reuseInvalid(m, lpCur) ==
  LET Go(m2) == reuseInvalid(followed(m2, lpCur), nxtOf(m2, lpCur))
      Off(m1) ==
        IF m1.msMch[lpCur].iiCnt > 1
           /\ m1.msMch[lpCur].izNew > m1.msMch[lpCur].izTst
        THEN Go(addNew([m1 EXCEPT !.msMch[lpCur].iiCmp = 0], lpCur))
        ELSE [m1 EXCEPT !.msMch[lpCur].ipNxt = m1.mpOld, !.mpOld = lpCur]
  IN  IF lpCur = NullPtr THEN m
      ELSE IF m.msMch[lpCur].iiCmp # CMPINV THEN m
      ELSE Off([followed(m, lpCur) EXCEPT !.mpNew = nxtOf(m, lpCur)])

\* JMatchTable::nextold
nextold(m) ==
  LET After(m1) ==
        IF m1.mpOld = NullPtr /\ m1.mpNew # NullPtr
        THEN reuseInvalid([m1 EXCEPT !.msMch[m1.mpLst].ipNxt = NullPtr],
                          m1.mpNew)
        ELSE m1
  IN  After(keepFresh(m))

\* getbest and cleanup, "join old and new lists"
joinLists(m) ==
  IF m.mpNew # NullPtr
  THEN [m EXCEPT !.msMch[m.mpLst].ipNxt = m.mpOld, !.mpOld = m.mpNew,
                 !.mpNew = NullPtr, !.mpLst = NullPtr]
  ELSE m

\* getbest, the re-evaluation of the enlarged end-of-buffer matches
RECURSIVE reevalEob(_, _, _, _)
reevalEob(m, lpCur, azRedNew, lbBstEob) ==
  LET Go(m1, won) ==
        reevalEob(followed(m1, lpCur), nxtOf(m1, lpCur), azRedNew,
                  lbBstEob \/ (won /\ m1.mpBst = lpCur))
      Of(r) ==
        IF lpCur # m.mpBst /\ r.iiCmp <= CMPEOB /\ r.izNew > r.izTst
        THEN Go(isBest(m, lpCur, azRedNew, 0, r.izTst, r.iiCmp), TRUE)
        ELSE Go(m, FALSE)
  IN  IF lpCur = NullPtr THEN [m |-> m, eob |-> lbBstEob]
      ELSE Of(m.msMch[lpCur])

\* JMatchTable::getbest; the caller reads mpBst, mzBstOrg and mzBstNew
getbest(m, azRedNew) ==
  LET Pos(m1, c) == [m1 EXCEPT !.mzBstOrg = c.org, !.mzBstNew = c.new]
      Recalc(x) ==
        IF x.eob /\ x.m.mzBstOrg = 0
        THEN Pos(x.m, calcPosOrg(x.m.msMch[x.m.mpBst], x.m.mzBstNew))
        ELSE x.m
      Joined(m1) == Recalc(reevalEob(m1, m1.mpOld, azRedNew, FALSE))
  IN  IF m.mbCmpAll THEN m ELSE Joined(joinLists(m))

\* add, the search of a colliding match
RECURSIVE findCol(_, _, _)
findCol(m, lpCur, lzDlt) ==
  IF lpCur = NullPtr THEN NullPtr
  ELSE IF m.msMch[lpCur].izDlt = lzDlt THEN lpCur
  ELSE findCol(m, m.msMch[lpCur].ipCol, lzDlt)

\* add, the search of a gliding match
RECURSIVE findGld(_, _, _)
findGld(m, lpCur, azFndOrgAdd) ==
  IF lpCur = NullPtr THEN NullPtr
  ELSE IF m.msMch[lpCur].izOrg = azFndOrgAdd THEN lpCur
  ELSE findGld(m, m.msMch[lpCur].ipGld, azFndOrgAdd)

\* add, "add to colliding match"
joinCol(m, lpCur, azFndNewAdd) ==
  LET Inc(m1) ==
        [m1 EXCEPT !.msMch[lpCur].iiCnt = @ + 1,
                   !.msMch[lpCur].izNew = azFndNewAdd]
  IN  Inc(IF m.msMch[lpCur].iiCnt = 1 THEN delGld(m, lpCur) ELSE m)

\* add, "add to gliding match"
joinGld(m, lpCur, azFndNewAdd) ==
  LET Inc(m1) ==
        [m1 EXCEPT !.msMch[lpCur].iiCnt = @ + 1,
                   !.msMch[lpCur].izNew = azFndNewAdd,
                   !.msMch[lpCur].iiGld =
                      IF @ # 0 THEN @
                      ELSE IF azFndNewAdd <= m1.msMch[lpCur].izBeg + SMPSZE
                      THEN azFndNewAdd - m1.msMch[lpCur].izBeg
                      ELSE SMPSZE]
  IN  Inc(IF m.msMch[lpCur].iiCnt = 1 THEN delCol(m, lpCur) ELSE m)

\* add, "remove first renewed item from the oldlist"
renewed(m, lpCur) ==
  IF m.mpOld = lpCur
  THEN addNew(nextold([followed(m, lpCur) EXCEPT !.mpOld = nxtOf(m, lpCur)]),
              lpCur)
  ELSE m

\* add, "fill out the form" and the two hashtables
filled(m, lpCur, ipNxt, azFndOrgAdd, azFndNewAdd) ==
  LET Put(lzDlt, liIdxDlt, liIdxGld) ==
        [m EXCEPT
           !.msMch = HshPut(m.msMch, lpCur,
              [ipNxt |-> ipNxt, ipCol |-> headOf(m.mpCol, liIdxDlt),
               ipGld |-> headOf(m.mpGld, liIdxGld), iiCnt |-> 1, iiGld |-> 0,
               izBeg |-> azFndNewAdd, izNew |-> azFndNewAdd,
               izOrg |-> azFndOrgAdd, izDlt |-> lzDlt, izTst |-> -1,
               iiCmp |-> 0]),
           !.mpCol = HshPut(m.mpCol, liIdxDlt, lpCur),
           !.mpGld = HshPut(m.mpGld, liIdxGld, lpCur)]
  IN  Put(azFndOrgAdd - azFndNewAdd,
          abs(azFndOrgAdd - azFndNewAdd) % m.miMchPme,
          azFndOrgAdd % m.miMchPme)

\* reused that leaves the match on the old list
reused_Keep(m, lpCur, azFndOrgAdd, azFndNewAdd) ==
  LET Form(m3) ==
        filled(m3, lpCur, m3.msMch[lpCur].ipNxt, azFndOrgAdd, azFndNewAdd)
      Gld(m2) ==
        Form(IF m2.msMch[lpCur].iiCnt = 1 \/ m2.msMch[lpCur].iiGld # 0
             THEN delGld(m2, lpCur) ELSE m2)
      Col(m1) ==
        Gld(IF m1.msMch[lpCur].iiCnt = 1 \/ m1.msMch[lpCur].iiGld = 0
            THEN delCol(m1, lpCur) ELSE m1)
  IN  Col([m EXCEPT !.reu = TRUE])

\* add, "reuse old element"
reused(m, lpCur, azFndOrgAdd, azFndNewAdd) ==
  LET Form(m3) ==
        filled(m3, lpCur, m3.msMch[lpCur].ipNxt, azFndOrgAdd, azFndNewAdd)
      Gld(m2) ==
        Form(IF m2.msMch[lpCur].iiCnt = 1 \/ m2.msMch[lpCur].iiGld # 0
             THEN delGld(m2, lpCur) ELSE m2)
      Col(m1) ==
        Gld(IF m1.msMch[lpCur].iiCnt = 1 \/ m1.msMch[lpCur].iiGld = 0
            THEN delCol(m1, lpCur) ELSE m1)
  IN  Col(nextold([followed(m, lpCur) EXCEPT !.mpOld = nxtOf(m, lpCur),
                                             !.reu = TRUE,
                                             !.rbs = @ \/ lpCur = m.mpBst]))

\* JMatchTable::add up to the evaluation: the match that was joined or
\* allocated, or NullPtr for the Error return
addFind(m, azFndOrgAdd, azFndNewAdd) ==
  LET Gld(g) ==
        IF g # NullPtr
        THEN [m |-> renewed(joinGld(m, g, azFndNewAdd), g), cur |-> g]
        ELSE IF m.miMchFre > 0
        THEN [m |-> filled([m EXCEPT !.miMchFre = @ - 1], m.miMchFre - 1,
                           JunkPtr, azFndOrgAdd, azFndNewAdd),
              cur |-> m.miMchFre - 1]
        ELSE IF m.mpOld # NullPtr
        THEN [m |-> reused(m, m.mpOld, azFndOrgAdd, azFndNewAdd),
              cur |-> m.mpOld]
        ELSE [m |-> m, cur |-> NullPtr]
      Col(c) ==
        IF c # NullPtr
        THEN [m |-> renewed(joinCol(m, c, azFndNewAdd), c), cur |-> c]
        ELSE Gld(findGld(m, headOf(m.mpGld, azFndOrgAdd % m.miMchPme),
                         azFndOrgAdd))
  IN  Col(findCol(m, headOf(m.mpCol,
                            abs(azFndOrgAdd - azFndNewAdd) % m.miMchPme),
                  azFndOrgAdd - azFndNewAdd))

\* add, the switch on the result of the evaluation
addSwitch(m, lpCur, liRet) ==
  LET AtFront(m1) ==
        IF m1.msMch[lpCur].iiCnt = 1
        THEN [m1 EXCEPT !.mpLst = IF m1.mpNew = NullPtr THEN lpCur ELSE @,
                        !.msMch[lpCur].ipNxt = m1.mpNew, !.mpNew = lpCur]
        ELSE m1
  IN  IF liRet = "Invalid" /\ m.msMch[lpCur].izTst >= m.msMch[lpCur].izNew
      THEN AtFront([m EXCEPT !.miHshRpr = @ + 1,
                           !.msMch[lpCur].iiCmp = CMPINV])
      ELSE IF m.msMch[lpCur].iiCnt = 1 THEN addNew(m, lpCur)
      ELSE m

\* the return of add that never reports a full table
addReturn_Silent(m, liRet) == liRet

\* add, "Check if there's still room for new elements"
addReturn(m, liRet) ==
  IF m.miMchFre = 0 /\ m.mpOld = NullPtr THEN "Full" ELSE liRet

\* JMatchTable::cleanup up to the loop over the old list
cleanupBegin(m, aiRlb, azRedNew) ==
  [joinLists(m) EXCEPT !.miRlb = aiRlb, !.mpBst = NullPtr,
                       !.mzOld = azRedNew]

\* JMatchTable::cleanup after the loop over the old list
cleanupReturn(m, azRedNew) ==
  IF m.mpOld = NullPtr /\ m.miMchFre = 0 THEN "Full"
  ELSE IF m.mpBst = NullPtr THEN "Invalid"
  ELSE IF m.mzBstNew # azRedNew THEN "Valid"
  ELSE IF m.miBstCmp >= EQLMAX THEN "Best"
  ELSE IF m.miBstCmp >= EQLSZE THEN "Good"
  ELSE "Valid"

(***************************************************************************)
(* The sinks.  ops is the sequence of the put calls received; a call is    *)
(* recorded with its operator, its length, its data byte (MOD and INS)     *)
(* and the two positions it was given.                                     *)
(***************************************************************************)
MINEQL == 2

\* a sink of kind "rgn" (JOutRgn) or "bin" (JOutBin) before its first call
JOut(kind) ==
  [kind |-> kind, siOprCur |-> ESC, szOprCnt |-> 0, mzEqlCnt |-> 0,
   gzOutBytDta |-> 0, ops |-> <<>>]

\* the record of one put call
putCall(aiOpr, azLen, aiNew, azPosOrg, azPosNew) ==
  [op |-> aiOpr, len |-> azLen,
   dat |-> IF aiOpr = MOD \/ aiOpr = INS THEN <<aiNew>> ELSE <<>>,
   posOrg |-> azPosOrg, posNew |-> azPosNew]

\* JOutRgn::put
JOutRgn_put(o, aiOpr, azLen) ==
  [out |-> [o EXCEPT !.siOprCur = aiOpr,
                     !.szOprCnt = (IF aiOpr # o.siOprCur THEN 0 ELSE @)
                                  + (IF aiOpr \in {INS, MOD, DEL, BKT, EQL}
                                     THEN azLen ELSE 0),
                     !.gzOutBytDta = @ + (IF aiOpr # o.siOprCur
                                             /\ o.siOprCur \in {MOD, INS}
                                          THEN o.szOprCnt ELSE 0)],
   r |-> TRUE]

\* JOutBin::put, as far as the driver sees it: the first MINEQL bytes of an
\* equal run are kept in reserve, the run is counted from the next byte on
JOutBin_put(o, aiOpr, azLen) ==
  [out |-> [o EXCEPT !.mzEqlCnt = IF aiOpr # EQL THEN 0
                                  ELSE IF @ < MINEQL THEN @ + 1
                                  ELSE @ + azLen],
   r |-> IF aiOpr = EQL THEN o.mzEqlCnt >= MINEQL ELSE TRUE]

\* mpOut->put
put(o, aiOpr, azLen, aiNew, azPosOrg, azPosNew) ==
  LET Log(p) ==
        [out |-> [p.out EXCEPT !.ops = Append(@, putCall(aiOpr, azLen, aiNew,
                                                         azPosOrg, azPosNew))],
         r |-> p.r]
  IN  Log(IF o.kind = "rgn" THEN JOutRgn_put(o, aiOpr, azLen)
          ELSE JOutBin_put(o, aiOpr, azLen))

(***************************************************************************)
(* JDiff.  The state of a run of jdiff is a record: the two files, the     *)
(* index, the match table, the sink, the members of JDiff, and the locals  *)
(* of jdiff, of search (s_), of buildFullIndex (b_), of isGoodOrBest (ev)  *)
(* and of check (ck).  pc is the place of the run in the code, ret the     *)
(* value jdiff returns once pc is "done".  Three fields of ck are history  *)
(* variables: max, the longest run of equal bytes check has read in this   *)
(* call, ret, the value it returned, and dlt, the distance of the two      *)
(* positions it was called with.  Four fields of ev are history variables: *)
(* res, the value isGoodOrBest returned last, cmp, the compare length it   *)
(* returned it for, tst, the position in the destination where that        *)
(* solution starts, and red, the read position it was called with.         *)
(***************************************************************************)
NoCheck ==
  [posOrg |-> 0, posNew |-> 0, len |-> 0, gld |-> 0, eql |-> 0,
   lcOrg |-> 0, lcNew |-> 0, max |-> 0, ret |-> 0, dlt |-> 0]

NoEval ==
  [cur |-> NullPtr, ret |-> "cln", res |-> "None", cmp |-> 0, tst |-> 0,
   red |-> 0]

\* what the last search returned, and where: no search has returned yet;
\* ini: search has initialised the hash of the destination again and has
\* not looked a key up since
NoSearch == [fnd |-> -1, posNew |-> 0, ahd |-> 0, ini |-> FALSE]

\* JDiff::JDiff, and the locals of jdiff at its entry; exi is the status
\* main gives to exit, -1 as long as it has not; srch records the last
\* return of search.  jdiff is run with an index of HshMbt megabytes, a
\* size that does not overflow, so that the outcome named for an overflow
\* plays no part
JDiff(apFilOrg, apFilNew, apOut, aiHshSze, abSrcBkt, aiSrcScn, aiMchMax, aiMchMin, aiAhdMax, abCmpAll, junk) ==
  [pc |-> "start", ret |-> 0, exi |-> -1,
   org |-> apFilOrg, new |-> apFilNew, out |-> apOut,
   hsh |-> JHashPos(aiHshSze, junk, "wrapped"),
   mch |-> JMatchTable(aiMchMax, abCmpAll, aiAhdMax),
   mbSrcBkt |-> abSrcBkt, miMchMax |-> aiMchMax,
   miMchMin |-> IF aiMchMin > aiMchMax THEN aiMchMax - 1 ELSE aiMchMin,
   miAhdMax |-> IF aiAhdMax < 1024 THEN 1024 ELSE aiAhdMax,
   mbCmpAll |-> abCmpAll, miSrcScn |-> aiSrcScn,
   mzAhdOrg |-> 0, mzAhdNew |-> 0, mlHshOrg |-> HshZero,
   mlHshNew |-> HshZero, miPrvOrg |-> EOF, miPrvNew |-> EOF,
   miEqlOrg |-> 0, miEqlNew |-> 0, miValNew |-> 0, miRlb |-> 0,
   miHshErr |-> 0,
   lcOrg |-> 0, lcNew |-> 0, lzPosOrg |-> 0, lzPosNew |-> 0,
   lbEql |-> FALSE, lzEql |-> 0, lzCnt |-> 0, liFnd |-> 0, lzAhd |-> 0,
   lzSkpOrg |-> 0, lzSkpNew |-> 0, lzLapSml |-> MAX_OFF_T,
   s_lzBseOrg |-> 0, s_liMax |-> 0, s_liBck |-> 0, s_liFnd |-> 0,
   s_liSftNew |-> "HardAhead", s_liIdx |-> 0, s_lpCur |-> NullPtr,
   b_lkHshOrg |-> HshZero, b_liEqlOrg |-> 0, b_lcValOrg |-> 0,
   b_lcValPrv |-> EOF, b_lzPosOrg |-> -1, b_liIdx |-> 0,
   ev |-> NoEval, ck |-> NoCheck, srch |-> NoSearch]

\* flushEql that gives put the positions after the equal bytes
flushEql_Here(d) ==
  IF d.lzEql > 0
  THEN [d EXCEPT !.out = put(d.out, EQL, d.lzEql, 0, d.lzPosOrg,
                             d.lzPosNew).out,
                 !.lzEql = 0, !.lbEql = FALSE]
  ELSE [d EXCEPT !.lbEql = FALSE]

\* flushEql that forgets the pending equal bytes
flushEql_Drop(d) == [d EXCEPT !.lzEql = 0, !.lbEql = FALSE]

\* JDiff::flushEql
flushEql(d) ==
  IF d.lzEql > 0
  THEN [d EXCEPT !.out = put(d.out, EQL, d.lzEql, 0, d.lzPosOrg - d.lzEql,
                             d.lzPosNew - d.lzEql).out,
                 !.lzEql = 0, !.lbEql = FALSE]
  ELSE [d EXCEPT !.lbEql = FALSE]

\* jdiff, "lcOrg = get(++ lzPosOrg); lcNew = get(++ lzPosNew)"
readBoth(d) ==
  LET Got(o, n) ==
        [d EXCEPT !.org = o.f, !.new = n.f, !.lcOrg = o.r, !.lcNew = n.r,
                  !.lzPosOrg = @ + 1, !.lzPosNew = @ + 1]
  IN  Got(get(d.org, d.lzPosOrg + 1, "Read"),
          get(d.new, d.lzPosNew + 1, "Read"))

\* readNew that advances twice
readNew_Skip(d) ==
  LET Got(n) == [d EXCEPT !.new = n.f, !.lcNew = n.r, !.lzPosNew = @ + 2]
  IN  Got(get(d.new, d.lzPosNew + 2, "Read"))

\* jdiff, "lcNew = get(++ lzPosNew)"
readNew(d) ==
  LET Got(n) == [d EXCEPT !.new = n.f, !.lcNew = n.r, !.lzPosNew = @ + 1]
  IN  Got(get(d.new, d.lzPosNew + 1, "Read"))

\* jdiff and search, the source byte lcOrg at mzAhdOrg enters the index
scanned(d, lcOrg) ==
  LET Hashed(h) ==
        [d EXCEPT !.mlHshOrg = h.h, !.miPrvOrg = h.old, !.miEqlOrg = h.eql,
                  !.hsh = JHashPos_add(d.hsh, h.h, d.mzAhdOrg, h.eql),
                  !.mzAhdOrg = @ + 1]
  IN  Hashed(hash(d.mlHshOrg, d.miPrvOrg, lcOrg, d.miEqlOrg))

\* search, the switch on the result of gpMch->add
afterAdd(d, liRet) ==
  LET Valid(e) ==
        [e EXCEPT
           !.s_liFnd = @ + 1,
           !.s_liSftNew = IF e.mzAhdNew > e.lzPosNew
                             /\ e.s_liFnd + 1 >= e.miMchMin
                          THEN "SoftAhead" ELSE @,
           !.s_liMax = IF e.mzAhdNew > e.lzPosNew
                          /\ e.s_liFnd + 1 >= e.miMchMax
                       THEN 0 ELSE @,
           !.pc = "look"]
  IN  IF liRet = "Error" \/ liRet = "Full"
      THEN [d EXCEPT !.s_liMax = 0, !.pc = "look"]
      ELSE IF liRet = "Enlarged" \/ liRet = "Invalid"
      THEN [d EXCEPT !.pc = "look"]
      ELSE IF liRet = "Best" \/ liRet = "Good"
      THEN Valid([d EXCEPT !.s_liMax = IF @ > d.miRlb THEN d.miRlb ELSE @])
      ELSE Valid(d)

\* isGoodOrBest that rates a solution by its length alone
verdict_ByLength(liCurCmp, lzTstNew, azRedNew) ==
  IF liCurCmp >= EQLMAX THEN "Best"
  ELSE IF liCurCmp >= EQLSZE THEN "Good"
  ELSE IF liCurCmp > 0 THEN "Valid"
  ELSE "Invalid"

\* isGoodOrBest, "return Invalid / Valid / Best / Good"
verdict(liCurCmp, lzTstNew, azRedNew) ==
  IF liCurCmp = 0 THEN "Invalid"
  ELSE IF lzTstNew # azRedNew THEN "Valid"
  ELSE IF liCurCmp >= EQLMAX THEN "Best"
  ELSE IF liCurCmp >= EQLSZE THEN "Good"
  ELSE "Valid"

\* isGoodOrBest from "If iiCmp>=EQLMAX" on, then back in its caller:
\* cleanup goes to the next match, add ends and search goes on
evalEnd(d, lpCur, lzTstOrg, lzTstNew, liCmp, cont) ==
  LET Seen(c, liRet) ==
        [d EXCEPT !.ev.res = liRet, !.ev.cmp = c, !.ev.tst = lzTstNew,
                  !.ev.red = d.lzPosNew]
      InAdd(e, m, liRet) == afterAdd([e EXCEPT !.mch = m], addReturn(m, liRet))
      Cont(e, m, liRet) ==
        IF cont = "cln"
        THEN [e EXCEPT !.mch = followed(m, lpCur),
                       !.s_lpCur = nxtOf(m, lpCur), !.pc = "cln"]
        ELSE InAdd(e, addSwitch(m, lpCur, liRet), liRet)
      Rated(c, liRet) ==
        Cont(Seen(c, liRet),
             isBest(d.mch, lpCur, d.lzPosNew, lzTstOrg, lzTstNew, c), liRet)
      With(c) == Rated(c, verdict(c, lzTstNew, d.lzPosNew))
  IN  With(IF d.mch.msMch[lpCur].iiCmp >= EQLMAX
              /\ d.mch.msMch[lpCur].izNew > lzTstNew + liCmp
           THEN liCmp + (d.mch.msMch[lpCur].izNew - lzTstNew)
           ELSE liCmp)

\* chkExit that takes a run of EQLMIN equal bytes
chkExit_Min(d) ==
  LET Store(e, lzTstOrg, lzTstNew, liCurCmp) ==
        evalEnd([e EXCEPT
                   !.ck.posOrg = lzTstOrg, !.ck.posNew = lzTstNew,
                   !.ck.ret = liCurCmp,
                   !.mch.msMch[d.ev.cur].izTst = lzTstNew,
                   !.mch.msMch[d.ev.cur].iiCmp =
                      IF @ = CMPINV /\ liCurCmp <= 0 THEN @ ELSE liCurCmp],
                d.ev.cur, lzTstOrg, lzTstNew, liCurCmp, d.ev.ret)
  IN  IF d.ck.eql >= EQLMIN
      THEN Store(d, d.ck.posOrg - d.ck.eql, d.ck.posNew - d.ck.eql, d.ck.eql)
      ELSE IF d.ck.lcOrg = EOB \/ d.ck.lcNew = EOB
      THEN Store(d, d.ck.posOrg, d.ck.posNew, CMPEOB)
      ELSE Store(d, d.ck.posOrg, d.ck.posNew, 0)

\* check after its loop, and isGoodOrBest, "store result"
chkExit(d) ==
  LET Store(e, lzTstOrg, lzTstNew, liCurCmp) ==
        evalEnd([e EXCEPT
                   !.ck.posOrg = lzTstOrg, !.ck.posNew = lzTstNew,
                   !.ck.ret = liCurCmp,
                   !.mch.msMch[d.ev.cur].izTst = lzTstNew,
                   !.mch.msMch[d.ev.cur].iiCmp =
                      IF @ = CMPINV /\ liCurCmp <= 0 THEN @ ELSE liCurCmp],
                d.ev.cur, lzTstOrg, lzTstNew, liCurCmp, d.ev.ret)
  IN  IF d.ck.eql > EQLMIN
      THEN Store(d, d.ck.posOrg - d.ck.eql, d.ck.posNew - d.ck.eql, d.ck.eql)
      ELSE IF d.ck.lcOrg = EOB \/ d.ck.lcNew = EOB
      THEN Store(d, d.ck.posOrg, d.ck.posNew, CMPEOB)
      ELSE Store(d, d.ck.posOrg, d.ck.posNew, 0)

\* check, the body of the loop: the two bytes are read and compared
chkCompare(d) ==
  LET aiSft == IF d.mbCmpAll THEN "HardAhead" ELSE "SoftAhead"
      Out(e, lcOrg, lcNew) ==
        chkExit([e EXCEPT !.ck.lcOrg = lcOrg, !.ck.lcNew = lcNew])
      Cmp(e, lcOrg, lcNew) ==
        IF lcOrg = lcNew
        THEN [e EXCEPT !.ck.lcOrg = lcOrg, !.ck.lcNew = lcNew,
                       !.ck.posOrg = @ + 1, !.ck.posNew = @ + 1,
                       !.ck.eql = @ + 1, !.ck.len = @ - 1,
                       !.ck.max = Max(@, e.ck.eql + 1)]
        ELSE IF e.ck.eql >= EQLSZE \/ e.ck.len <= 0
        THEN Out(e, lcOrg, lcNew)
        ELSE [e EXCEPT !.ck.lcOrg = lcOrg, !.ck.lcNew = lcNew,
                       !.ck.posNew = @ + 1,
                       !.ck.posOrg = IF e.ck.gld # 0 THEN @ - e.ck.eql
                                     ELSE @ + 1,
                       !.ck.eql = 0, !.ck.len = @ - 1]
      New(e, lcOrg, n) ==
        IF n.r < 0 THEN Out([e EXCEPT !.new = n.f], lcOrg, n.r)
        ELSE Cmp([e EXCEPT !.new = n.f], lcOrg, n.r)
      Org(o) ==
        IF o.r < 0 THEN Out([d EXCEPT !.org = o.f], o.r, d.ck.lcNew)
        ELSE New([d EXCEPT !.org = o.f], o.r,
                 get(d.new, d.ck.posNew, aiSft))
  IN  Org(get(d.org, d.ck.posOrg, aiSft))

\* the loop of check that does not end at EQLMAX equal bytes
chkTurn_NoCap(d) == chkCompare(d)

\* one turn of the loop of JMatchTable::check
chkTurn(d) == IF d.ck.eql >= EQLMAX THEN chkExit(d) ELSE chkCompare(d)

\* isGoodOrBest up to the call of check
evalBegin(d, lpCur, cont) ==
  LET Dst(lzDst) ==
        IF lzDst < MINDST THEN MINDST
        ELSE IF lzDst > MAXDST THEN MAXDST ELSE lzDst
      Of(r, c) ==
        IF c.new <= r.izTst
        THEN evalEnd(d, lpCur,
                     IF c.gld THEN r.izOrg ELSE c.org + (r.izTst - c.new),
                     r.izTst,
                     IF r.iiCmp = CMPSKP \/ r.iiCmp = CMPINV THEN 0
                     ELSE r.iiCmp,
                     cont)
        ELSE IF ~c.gld /\ r.iiCmp > 0 /\ r.izTst - c.new + r.iiCmp > EQLMIN
        THEN evalEnd(d, lpCur, c.org, c.new, r.izTst - c.new + r.iiCmp, cont)
        ELSE [d EXCEPT !.pc = "chk",
                       !.ev = [d.ev EXCEPT !.cur = lpCur, !.ret = cont],
                       !.ck = [posOrg |-> c.org, posNew |-> c.new,
                               len |-> Dst(r.izBeg - c.new),
                               gld |-> IF c.gld THEN r.iiGld ELSE 0,
                               eql |-> 0, lcOrg |-> 0, lcNew |-> 0,
                               max |-> 0, ret |-> 0,
                               dlt |-> c.org - c.new]]
  IN  Of(d.mch.msMch[lpCur], calcPosOrg(d.mch.msMch[lpCur], d.lzPosNew))

\* search, the match loop: the hash of the destination was found in the
\* index at lzFndOrg; gpMch->add up to its evaluation
addTurn(d, lzFndOrg) ==
  LET Woken(m, lpCur) ==
        IF m.msMch[lpCur].iiCmp = CMPSKP
        THEN [m EXCEPT !.msMch[lpCur].iiCmp = 0] ELSE m
      Of(a) ==
        IF a.cur = NullPtr
        THEN afterAdd([d EXCEPT !.mch.err = TRUE], "Error")
        ELSE IF a.m.msMch[a.cur].iiCnt = 1
                \/ a.m.msMch[a.cur].iiCmp = CMPSKP
        THEN evalBegin([d EXCEPT !.mch = Woken(a.m, a.cur)], a.cur, "add")
        ELSE afterAdd([d EXCEPT !.mch = a.m], addReturn(a.m, "Enlarged"))
  IN  Of(addFind(d.mch, lzFndOrg, d.mzAhdNew))

\* search, "Add the resulting look-back to liMax"
lookBegin(d) ==
  [d EXCEPT !.s_liMax = IF d.mzAhdNew < d.lzPosNew
                        THEN @ + (d.lzPosNew - d.mzAhdNew) ELSE @,
            !.pc = "look"]

\* search, "Re-Initialize hash function" up to its loop
hashInit(d) ==
  LET At(lzAhd) ==
        [d EXCEPT !.mzAhdNew = lzAhd - 1,
                  !.s_liBck = IF lzAhd = 0 THEN SMPSZE - 1
                              ELSE SMPSZE * 2 - 1,
                  !.mlHshNew = HshZero, !.miEqlNew = 0, !.miPrvNew = EOF,
                  !.s_liIdx = 0, !.srch.ini = TRUE, !.pc = "hinit"]
  IN  IF d.mzAhdNew = 0 \/ d.mzAhdNew + d.s_liBck < d.lzPosNew
      THEN At(IF d.lzPosNew > getBufPos(d.new) + d.s_liBck
              THEN Max(0, d.lzPosNew - d.s_liBck)
              ELSE getBufPos(d.new))
      ELSE lookBegin(d)

\* search, the switch on the result of cleanup and "If there's room to work"
afterCleanup(d, liRet) ==
  LET Room(e) ==
        IF e.s_liFnd < e.miMchMax
        THEN hashInit([e EXCEPT
                         !.new = set_lookahead_base(e.new, e.lzPosNew),
                         !.s_liSftNew = IF e.s_liFnd >= e.miMchMin
                                        THEN "SoftAhead" ELSE "HardAhead"])
        ELSE [e EXCEPT !.pc = "best"]
  IN  Room(IF liRet = "Error" \/ liRet = "Full"
           THEN [d EXCEPT !.s_liFnd = d.miMchMax]
           ELSE IF liRet = "Best" \/ liRet = "Good"
           THEN [d EXCEPT !.s_liMax = IF @ > d.miRlb * 2 THEN d.miRlb * 2
                                      ELSE @]
           ELSE d)

\* cleanup after its loop
cleanupEnd(d) ==
  LET Ret(m) == afterCleanup([d EXCEPT !.mch = m],
                             cleanupReturn(m, d.lzPosNew))
  IN  Ret(nextold(d.mch))

\* search from "How many bytes to look ahead" to the loop of cleanup
searchWindow(d) ==
  LET Bck(liBck) ==
        IF liBck < 0 THEN 0
        ELSE IF liBck > d.miRlb + 2 * SMPSZE - 1
        THEN d.miRlb + 2 * SMPSZE - 1 ELSE liBck
      Lim(liMax) == IF liMax < d.miRlb THEN d.miRlb ELSE liMax
      Cln(m) ==
        [d EXCEPT !.s_liMax = Lim(IF d.mzAhdNew > d.lzPosNew
                                  THEN d.miAhdMax - (d.mzAhdNew - d.lzPosNew)
                                  ELSE d.miAhdMax),
                  !.s_liBck = Bck(d.lzPosNew - d.mzAhdNew),
                  !.s_lzBseOrg = IF d.mbSrcBkt THEN 0 ELSE getBufPos(d.org),
                  !.s_liFnd = 0, !.mch = m, !.s_lpCur = m.mpOld,
                  !.pc = "cln"]
  IN  Cln(cleanupBegin(d.mch, get_reliability(d.hsh), d.lzPosNew))

\* buildFullIndex returns, and search after its prescan
indexed(d) ==
  IF d.b_lcValOrg < EOB
  THEN [d EXCEPT !.liFnd = d.b_lcValOrg, !.ret = d.b_lcValOrg,
                 !.pc = "done"]
  ELSE searchWindow([d EXCEPT !.miSrcScn = 2,
                              !.miRlb = get_reliability(d.hsh)])

\* search after its incremental scan
scannedAhead(d) == searchWindow([d EXCEPT !.miRlb = get_reliability(d.hsh)])

\* search, "Prescan the source file to build the hashtable"
searchBegin(d) ==
  IF d.miSrcScn = 1
  THEN [d EXCEPT !.b_lkHshOrg = HshZero, !.b_liEqlOrg = 0, !.b_lcValOrg = 0,
                 !.b_lcValPrv = EOF, !.b_lzPosOrg = -1, !.b_liIdx = 0,
                 !.pc = "bfi1"]
  ELSE IF d.miSrcScn = 0
  THEN [d EXCEPT !.org = set_lookahead_base(d.org, d.lzPosOrg),
                 !.s_liMax = IF d.mbSrcBkt THEN d.miAhdMax
                             ELSE IF d.mzAhdOrg < d.miAhdMax \div 2
                             THEN d.miAhdMax - d.mzAhdOrg
                             ELSE d.miAhdMax \div 2
                                  - (d.mzAhdOrg - d.lzPosOrg),
                 !.pc = "scan0"]
  ELSE searchWindow(d)

\* offsets that backtrack without the limit of lzBseOrg
offsets_NoClamp(d, lbFnd, lzFndOrg, lzFndNew) ==
  IF ~lbFnd
  THEN [skpOrg |-> 0, skpNew |-> 0,
        ahd |-> IF d.mzAhdNew - d.lzPosNew < SMPSZE THEN SMPSZE
                ELSE d.mzAhdNew - d.lzPosNew,
        fnd |-> 0]
  ELSE IF lzFndOrg >= d.lzPosOrg
  THEN IF lzFndOrg - d.lzPosOrg >= lzFndNew - d.lzPosNew
       THEN [skpOrg |-> lzFndOrg - d.lzPosOrg + d.lzPosNew - lzFndNew,
             skpNew |-> 0, ahd |-> lzFndNew - d.lzPosNew, fnd |-> 1]
       ELSE [skpOrg |-> 0,
             skpNew |-> lzFndNew - d.lzPosNew + d.lzPosOrg - lzFndOrg,
             ahd |-> lzFndOrg - d.lzPosOrg, fnd |-> 1]
  ELSE [skpOrg |-> -(d.lzPosOrg - lzFndOrg + lzFndNew - d.lzPosNew),
        skpNew |-> 0, ahd |-> lzFndNew - d.lzPosNew, fnd |-> 1]

\* the offsets with the distance in the source taken for lzAhd when the
\* source is skipped
offsets_AhdOrg(d, lbFnd, lzFndOrg, lzFndNew) ==
  LET Back(azSkpOrg) ==
        IF azSkpOrg <= d.lzPosOrg - d.s_lzBseOrg
        THEN [skpOrg |-> -azSkpOrg, skpNew |-> 0,
              ahd |-> lzFndNew - d.lzPosNew, fnd |-> 1]
        ELSE [skpOrg |-> d.s_lzBseOrg - d.lzPosOrg,
              skpNew |-> azSkpOrg - (d.lzPosOrg - d.s_lzBseOrg),
              ahd |-> (lzFndNew - d.lzPosNew)
                      - (azSkpOrg - (d.lzPosOrg - d.s_lzBseOrg)),
              fnd |-> 1]
  IN  IF ~lbFnd
      THEN [skpOrg |-> 0, skpNew |-> 0,
            ahd |-> IF d.mzAhdNew - d.lzPosNew < SMPSZE THEN SMPSZE
                    ELSE d.mzAhdNew - d.lzPosNew,
            fnd |-> 0]
      ELSE IF lzFndOrg >= d.lzPosOrg
      THEN IF lzFndOrg - d.lzPosOrg >= lzFndNew - d.lzPosNew
           THEN [skpOrg |-> lzFndOrg - d.lzPosOrg + d.lzPosNew - lzFndNew,
                 skpNew |-> 0, ahd |-> lzFndOrg - d.lzPosOrg, fnd |-> 1]
           ELSE [skpOrg |-> 0,
                 skpNew |-> lzFndNew - d.lzPosNew + d.lzPosOrg - lzFndOrg,
                 ahd |-> lzFndOrg - d.lzPosOrg, fnd |-> 1]
      ELSE Back(d.lzPosOrg - lzFndOrg + lzFndNew - d.lzPosNew)

\* the offsets without the jump of at least SMPSZE bytes when nothing was
\* found
offsets_NoJump(d, lbFnd, lzFndOrg, lzFndNew) ==
  LET Back(azSkpOrg) ==
        IF azSkpOrg <= d.lzPosOrg - d.s_lzBseOrg
        THEN [skpOrg |-> -azSkpOrg, skpNew |-> 0,
              ahd |-> lzFndNew - d.lzPosNew, fnd |-> 1]
        ELSE [skpOrg |-> d.s_lzBseOrg - d.lzPosOrg,
              skpNew |-> azSkpOrg - (d.lzPosOrg - d.s_lzBseOrg),
              ahd |-> (lzFndNew - d.lzPosNew)
                      - (azSkpOrg - (d.lzPosOrg - d.s_lzBseOrg)),
              fnd |-> 1]
  IN  IF ~lbFnd
      THEN [skpOrg |-> 0, skpNew |-> 0,
            ahd |-> d.mzAhdNew - d.lzPosNew,
            fnd |-> 0]
      ELSE IF lzFndOrg >= d.lzPosOrg
      THEN IF lzFndOrg - d.lzPosOrg >= lzFndNew - d.lzPosNew
           THEN [skpOrg |-> lzFndOrg - d.lzPosOrg + d.lzPosNew - lzFndNew,
                 skpNew |-> 0, ahd |-> lzFndNew - d.lzPosNew, fnd |-> 1]
           ELSE [skpOrg |-> 0,
                 skpNew |-> lzFndNew - d.lzPosNew + d.lzPosOrg - lzFndOrg,
                 ahd |-> lzFndOrg - d.lzPosOrg, fnd |-> 1]
      ELSE Back(d.lzPosOrg - lzFndOrg + lzFndNew - d.lzPosNew)

\* search, "Calculate the resulting offsets"
offsets(d, lbFnd, lzFndOrg, lzFndNew) ==
  LET Back(azSkpOrg) ==
        IF azSkpOrg <= d.lzPosOrg - d.s_lzBseOrg
        THEN [skpOrg |-> -azSkpOrg, skpNew |-> 0,
              ahd |-> lzFndNew - d.lzPosNew, fnd |-> 1]
        ELSE [skpOrg |-> d.s_lzBseOrg - d.lzPosOrg,
              skpNew |-> azSkpOrg - (d.lzPosOrg - d.s_lzBseOrg),
              ahd |-> (lzFndNew - d.lzPosNew)
                      - (azSkpOrg - (d.lzPosOrg - d.s_lzBseOrg)),
              fnd |-> 1]
  IN  IF ~lbFnd
      THEN [skpOrg |-> 0, skpNew |-> 0,
            ahd |-> IF d.mzAhdNew - d.lzPosNew < SMPSZE THEN SMPSZE
                    ELSE d.mzAhdNew - d.lzPosNew,
            fnd |-> 0]
      ELSE IF lzFndOrg >= d.lzPosOrg
      THEN IF lzFndOrg - d.lzPosOrg >= lzFndNew - d.lzPosNew
           THEN [skpOrg |-> lzFndOrg - d.lzPosOrg + d.lzPosNew - lzFndNew,
                 skpNew |-> 0, ahd |-> lzFndNew - d.lzPosNew, fnd |-> 1]
           ELSE [skpOrg |-> 0,
                 skpNew |-> lzFndNew - d.lzPosNew + d.lzPosOrg - lzFndOrg,
                 ahd |-> lzFndOrg - d.lzPosOrg, fnd |-> 1]
      ELSE Back(d.lzPosOrg - lzFndOrg + lzFndNew - d.lzPosNew)

\* "Execute offsets" that puts the DEL or BKT and leaves the source position
\* where it was
executed_Stay(d) ==
  LET Red(e, o) ==
        [e EXCEPT !.org = o.f, !.lcOrg = o.r,
                  !.pc = IF e.lzSkpNew > 0 THEN "insrun" ELSE "loop"]
      Skp(e) == Red(e, get(e.org, e.lzPosOrg, "Read"))
  IN  IF d.lzSkpOrg > 0
      THEN Skp([d EXCEPT !.out = put(d.out, DEL, d.lzSkpOrg, 0, d.lzPosOrg,
                                     d.lzPosNew).out])
      ELSE IF d.lzSkpOrg < 0
      THEN Skp([d EXCEPT !.out = put(d.out, BKT, -d.lzSkpOrg, 0, d.lzPosOrg,
                                     d.lzPosNew).out])
      ELSE [d EXCEPT !.pc = IF d.lzSkpNew > 0 THEN "insrun" ELSE "loop"]

\* jdiff, "Execute offsets" up to the loop of the insertions
executed(d) ==
  LET Red(e, o) ==
        [e EXCEPT !.org = o.f, !.lcOrg = o.r,
                  !.pc = IF e.lzSkpNew > 0 THEN "insrun" ELSE "loop"]
      Skp(e) == Red(e, get(e.org, e.lzPosOrg, "Read"))
  IN  IF d.lzSkpOrg > 0
      THEN Skp([d EXCEPT !.out = put(d.out, DEL, d.lzSkpOrg, 0, d.lzPosOrg,
                                     d.lzPosNew).out,
                         !.lzPosOrg = @ + d.lzSkpOrg])
      ELSE IF d.lzSkpOrg < 0
      THEN Skp([d EXCEPT !.out = put(d.out, BKT, -d.lzSkpOrg, 0, d.lzPosOrg,
                                     d.lzPosNew).out,
                         !.lzPosOrg = @ + d.lzSkpOrg])
      ELSE [d EXCEPT !.pc = IF d.lzSkpNew > 0 THEN "insrun" ELSE "loop"]

(***************************************************************************)
(* The steps of jdiff: one per place pc.                                   *)
(***************************************************************************)
\* jdiff, "Take one byte from each file"
stepStart(d) ==
  LET Got(o, n) ==
        [d EXCEPT !.org = o.f, !.new = n.f, !.lcOrg = o.r, !.lcNew = n.r,
                  !.pc = "loop"]
  IN  Got(get(d.org, d.lzPosOrg, "Read"), get(d.new, d.lzPosNew, "Read"))

\* jdiff, one turn of "while (lcNew >= 0)" up to its inner loops
stepLoop(d) ==
  LET First(e, p) ==
        readBoth([e EXCEPT !.out = p.out, !.lbEql = p.r, !.lzAhd = @ - 1])
      Differ(e) ==
        IF e.lcOrg < 0
        THEN readNew([e EXCEPT !.out = put(e.out, INS, 1, e.lcNew, e.lzPosOrg,
                                           e.lzPosNew).out,
                               !.lzAhd = @ - 1])
        ELSE [e EXCEPT !.pc = "modrun"]
      Cmp(e) ==
        IF e.lcOrg = e.lcNew
        THEN IF ~e.lbEql
             THEN First(e, put(e.out, EQL, 1, e.lcNew, e.lzPosOrg,
                               e.lzPosNew))
             ELSE [e EXCEPT !.lzCnt = 0, !.pc = "eqrun"]
        ELSE IF e.lzAhd > 0 THEN Differ(flushEql(e))
        ELSE IF e.liFnd = 1 /\ e.lzAhd = 0
        THEN [e EXCEPT !.liFnd = 0, !.miHshErr = @ + 1,
                       !.lzAhd = get_reliability(e.hsh) \div 2]
        ELSE searchBegin(flushEql(e))
  IN  IF d.lcNew < 0 THEN [d EXCEPT !.pc = "end"]
      ELSE Cmp(IF d.miSrcScn = 0 /\ d.lzPosOrg = d.mzAhdOrg
               THEN scanned(d, d.lcOrg) ELSE d)

\* the loop that counts equal bytes, adding one too few at its end
stepEqRun_Short(d) ==
  LET Cnt(e) ==
        readBoth(IF e.miSrcScn = 0 /\ e.lzPosOrg = e.mzAhdOrg
                 THEN scanned(e, e.lcOrg) ELSE e)
  IN  IF d.lcOrg = d.lcNew /\ d.lcNew >= 0 /\ d.lzPosNew < d.lzLapSml
      THEN Cnt([d EXCEPT !.lzCnt = @ + 1])
      ELSE [d EXCEPT !.lzEql = @ + d.lzCnt - 1, !.lzAhd = @ - d.lzCnt,
                     !.pc = "loop"]

\* jdiff, one turn of the loop that counts equal bytes
stepEqRun(d) ==
  LET Cnt(e) ==
        readBoth(IF e.miSrcScn = 0 /\ e.lzPosOrg = e.mzAhdOrg
                 THEN scanned(e, e.lcOrg) ELSE e)
  IN  IF d.lcOrg = d.lcNew /\ d.lcNew >= 0 /\ d.lzPosNew < d.lzLapSml
      THEN Cnt([d EXCEPT !.lzCnt = @ + 1])
      ELSE [d EXCEPT !.lzEql = @ + d.lzCnt, !.lzAhd = @ - d.lzCnt,
                     !.pc = "loop"]

\* the loop of the modified bytes that goes on over equal bytes
stepModRun_Over(d) ==
  IF d.lcOrg >= 0 /\ d.lcNew >= 0 /\ d.lzAhd > 0
  THEN readBoth([d EXCEPT !.out = put(d.out, MOD, 1, d.lcNew, d.lzPosOrg,
                                      d.lzPosNew).out,
                          !.lzAhd = @ - 1])
  ELSE [d EXCEPT !.pc = "loop"]

\* jdiff, one turn of the loop that puts modified bytes
stepModRun(d) ==
  IF d.lcOrg # d.lcNew /\ d.lcOrg >= 0 /\ d.lcNew >= 0 /\ d.lzAhd > 0
  THEN readBoth([d EXCEPT !.out = put(d.out, MOD, 1, d.lcNew, d.lzPosOrg,
                                      d.lzPosNew).out,
                          !.lzAhd = @ - 1])
  ELSE [d EXCEPT !.pc = "loop"]

\* the loop of the insertions that puts the byte of the source
stepInsRun_Org(d) ==
  IF d.lzSkpNew > 0 /\ d.lcNew > EOF
  THEN readNew([d EXCEPT !.out = put(d.out, INS, 1, d.lcOrg, d.lzPosOrg,
                                     d.lzPosNew).out,
                         !.lzSkpNew = @ - 1])
  ELSE [d EXCEPT !.pc = "loop"]

\* jdiff, one turn of the loop that puts inserted bytes
stepInsRun(d) ==
  IF d.lzSkpNew > 0 /\ d.lcNew > EOF
  THEN readNew([d EXCEPT !.out = put(d.out, INS, 1, d.lcNew, d.lzPosOrg,
                                     d.lzPosNew).out,
                         !.lzSkpNew = @ - 1])
  ELSE [d EXCEPT !.pc = "loop"]

\* the end of jdiff that puts the terminator before it flushes
stepEnd_Swapped(d) ==
  LET Fin(e) ==
        [e EXCEPT !.out = put(e.out, ESC, 0, 0, e.lzPosOrg, e.lzPosNew).out,
                  !.ret = IF e.lcNew < EOB \/ e.lcOrg < EOB
                          THEN Min(e.lcNew, e.lcOrg) ELSE EXI_OK,
                  !.pc = "done"]
  IN  flushEql(Fin(d))

\* the end of jdiff that takes the end of the destination for an error
stepEnd_EofIsError(d) ==
  LET Fin(e) ==
        [e EXCEPT !.out = put(e.out, ESC, 0, 0, e.lzPosOrg, e.lzPosNew).out,
                  !.ret = IF e.lcNew < 0 \/ e.lcOrg < EOB
                          THEN Min(e.lcNew, e.lcOrg) ELSE EXI_OK,
                  !.pc = "done"]
  IN  Fin(flushEql(d))

\* the end of jdiff that puts a DEL for the source bytes it has not reached
stepEnd_Del(d) ==
  LET Rest(e) == Len(e.org.dat) - e.lzPosOrg
      Del(e) ==
        IF Rest(e) > 0
        THEN [e EXCEPT !.out = put(e.out, DEL, Rest(e), 0, e.lzPosOrg,
                                   e.lzPosNew).out]
        ELSE e
      Fin(e) ==
        [e EXCEPT !.out = put(e.out, ESC, 0, 0, e.lzPosOrg, e.lzPosNew).out,
                  !.ret = IF e.lcNew < EOB \/ e.lcOrg < EOB
                          THEN Min(e.lcNew, e.lcOrg) ELSE EXI_OK,
                  !.pc = "done"]
  IN  Fin(Del(flushEql(d)))

\* jdiff from "Flush output buffer" to its return
stepEnd(d) ==
  LET Fin(e) ==
        [e EXCEPT !.out = put(e.out, ESC, 0, 0, e.lzPosOrg, e.lzPosNew).out,
                  !.ret = IF e.lcNew < EOB \/ e.lcOrg < EOB
                          THEN Min(e.lcNew, e.lcOrg) ELSE EXI_OK,
                  !.pc = "done"]
  IN  Fin(flushEql(d))

\* buildFullIndex, one turn of the loop that initialises the hash
stepIndexInit(d) ==
  LET Hashed(e, h) ==
        [e EXCEPT !.b_lkHshOrg = h.h, !.b_lcValPrv = h.old,
                  !.b_liEqlOrg = h.eql, !.b_liIdx = @ + 1]
      Got(g) ==
        IF g.r <= EOF
        THEN [d EXCEPT !.org = g.f, !.b_lcValOrg = g.r,
                       !.b_lzPosOrg = @ + 1, !.pc = "bfi2"]
        ELSE Hashed([d EXCEPT !.org = g.f, !.b_lcValOrg = g.r,
                              !.b_lzPosOrg = @ + 1],
                    hash(d.b_lkHshOrg, d.b_lcValPrv, g.r, d.b_liEqlOrg))
  IN  IF d.b_liIdx < SMPSZE - 1
      THEN Got(get(d.org, d.b_lzPosOrg + 1, "HardAhead"))
      ELSE [d EXCEPT !.pc = "bfi2"]

\* buildFullIndex, one turn of the loop that builds the index
stepIndex(d) ==
  LET Hashed(e, h) ==
        [e EXCEPT !.b_lkHshOrg = h.h, !.b_lcValPrv = h.old,
                  !.b_liEqlOrg = h.eql,
                  !.hsh = JHashPos_add(e.hsh, h.h, e.b_lzPosOrg, h.eql)]
      Got(g) ==
        IF g.r <= EOF
        THEN indexed([d EXCEPT !.org = g.f, !.b_lcValOrg = g.r,
                               !.b_lzPosOrg = @ + 1])
        ELSE Hashed([d EXCEPT !.org = g.f, !.b_lcValOrg = g.r,
                              !.b_lzPosOrg = @ + 1],
                    hash(d.b_lkHshOrg, d.b_lcValPrv, g.r, d.b_liEqlOrg))
  IN  IF d.b_lcValOrg > EOF
      THEN Got(get(d.org, d.b_lzPosOrg + 1, "HardAhead"))
      ELSE indexed(d)

\* search, one turn of the incremental scan of the source
stepScan(d) ==
  LET Got(g) ==
        IF g.r <= EOF THEN scannedAhead([d EXCEPT !.org = g.f])
        ELSE scanned([d EXCEPT !.org = g.f, !.s_liMax = @ - 1], g.r)
  IN  IF d.s_liMax > 0 THEN Got(get(d.org, d.mzAhdOrg, "SoftAhead"))
      ELSE scannedAhead(d)

\* cleanup, one turn of "evaluate existing entries"
stepCleanup(d) ==
  IF d.s_lpCur = NullPtr THEN cleanupEnd(d)
  ELSE IF isOld2Skip(d.mch.msMch[d.s_lpCur], d.lzPosNew)
  THEN [d EXCEPT
          !.mch = followed([d.mch EXCEPT !.msMch[d.s_lpCur].iiCmp = CMPSKP],
                           d.s_lpCur),
          !.s_lpCur = nxtOf(d.mch, d.s_lpCur)]
  ELSE evalBegin(d, d.s_lpCur, "cln")

\* search, one turn of the loop that initialises the hash
stepHashInit(d) ==
  LET Hashed(e, h) ==
        [e EXCEPT !.mlHshNew = h.h, !.miPrvNew = h.old, !.miEqlNew = h.eql,
                  !.mzAhdNew = @ + 1,
                  !.s_liBck = IF e.s_liIdx # h.eql
                                 /\ @ > e.s_liIdx + (SMPSZE - 1)
                              THEN e.s_liIdx + (SMPSZE - 1) ELSE @,
                  !.s_liIdx = @ + 1]
      Got(g) ==
        IF g.r <= EOF
        THEN lookBegin([d EXCEPT !.new = g.f, !.miValNew = g.r])
        ELSE Hashed([d EXCEPT !.new = g.f, !.miValNew = g.r],
                    hash(d.mlHshNew, d.miPrvNew, g.r, d.miEqlNew))
  IN  IF d.s_liIdx < d.s_liBck
      THEN Got(get(d.new, d.mzAhdNew + 1, d.s_liSftNew))
      ELSE lookBegin(d)

\* search, one turn of "Build the table of matches"
stepLook(d) ==
  LET Found(e, x) ==
        IF x.found /\ x.pos > e.s_lzBseOrg
        THEN addTurn([e EXCEPT !.hsh = x.hp], x.pos)
        ELSE [e EXCEPT !.hsh = x.hp]
      Hashed(e, h) ==
        Found([e EXCEPT !.mlHshNew = h.h, !.miPrvNew = h.old,
                        !.miEqlNew = h.eql, !.mzAhdNew = @ + 1,
                        !.s_liMax = @ - 1, !.srch.ini = FALSE],
              JHashPos_get(e.hsh, h.h))
      Got(g) ==
        IF g.r <= EOF
        THEN [d EXCEPT !.new = g.f, !.miValNew = g.r, !.pc = "best"]
        ELSE Hashed([d EXCEPT !.new = g.f, !.miValNew = g.r],
                    hash(d.mlHshNew, d.miPrvNew, g.r, d.miEqlNew))
  IN  IF d.s_liMax > 0
      THEN Got(get(d.new, d.mzAhdNew + 1, d.s_liSftNew))
      ELSE [d EXCEPT !.pc = "best"]

\* search from "Check for errors" to its return, and jdiff up to the loop
\* of the insertions
stepBest(d) ==
  LET Set(e, v) ==
        executed([e EXCEPT !.liFnd = v.fnd, !.lzSkpOrg = v.skpOrg,
                           !.lzSkpNew = v.skpNew, !.lzAhd = v.ahd,
                           !.srch = [fnd |-> v.fnd, posNew |-> e.lzPosNew,
                                     ahd |-> v.ahd, ini |-> e.srch.ini]])
      Best(m) ==
        Set([d EXCEPT !.mch = m],
            offsets(d, m.mpBst # NullPtr, m.mzBstOrg, m.mzBstNew))
  IN  IF d.miValNew < EOB
      THEN [d EXCEPT !.liFnd = d.miValNew, !.ret = d.miValNew, !.pc = "done"]
      ELSE Best(getbest(d.mch, d.lzPosNew))

(***************************************************************************)
(* Length codec: a length is encoded, then decoded from a file that holds  *)
(* the encoding followed by other bytes.                                   *)
(***************************************************************************)
MaxTrail == 1

TrailBytes == {65, 255}

\* lengths on both sides of every boundary of the encoding
LenSamples(large) ==
  LET top == IF large THEN {0, 127} ELSE {0}
      hi == IF large THEN {0, 255} ELSE {0}
  IN  {<<a, b, c, h, d, e, f, g>> :
         a \in top, b \in hi, c \in hi, h \in hi, d \in {0, 1, 127}, e \in {0, 1, 255},
         f \in {0, 1, 255}, g \in {0, 1, 251, 252, 253, 254, 255}}

IdleInt ==
  [pc |-> "idle", large |-> FALSE, n |-> OffZero, trail |-> <<>>,
   enc |-> <<>>, fil |-> MemFile(<<>>), val |-> OffZero]

IdlePatch ==
  [pc |-> "idle", large |-> FALSE, ops |-> <<>>, impl |-> FALSE,
   term |-> FALSE, org |-> JFileAhead(<<>>, 1, 1, FALSE, TRUE),
   pch |-> MemFile(<<>>), out |-> <<>>, liOpr |-> 0, lzPosOrg |-> 0,
   lzPosOut |-> 0, ret |-> EXI_OK]

IdleDiff ==
  [JDiff(JFileAhead(<<>>, 1, 1, FALSE, TRUE), JFileAhead(<<>>, 1, 1, FALSE, TRUE),
         JOut("rgn"), 1, TRUE, 1, 13, 2, 1024, TRUE, [at |-> 0, pos |-> 0])
   EXCEPT !.pc = "idle"]

\* no reader under test: the last call is "none"
IdleFile ==
  [f |-> JFileAhead(<<>>, 1, 1, FALSE, TRUE), op |-> "none", pos |-> 0,
   sft |-> "Read", r |-> 0, beg |-> 0]

\* no index under test
IdleIndex ==
  [hp |-> JHashPos(1, [at |-> 0, pos |-> 0], "wrapped"), op |-> "none",
   key |-> HshZero, pos |-> 0, found |-> FALSE, r |-> 0,
   last |-> [i \in {} |-> 0], rst |-> FALSE, fresh |-> {}, mbt |-> 1]

InitInt ==
  /\ pt = IdlePatch
  /\ jd = IdleDiff
  /\ fa = IdleFile
  /\ ix = IdleIndex
  /\ \E large \in BOOLEAN :
       \E n \in LenSamples(large), trail \in SeqsUpTo(TrailBytes, MaxTrail) :
         gi = [IdleInt EXCEPT !.pc = "put", !.large = large, !.n = n,
                              !.trail = trail]

\* the encoder writes the length, other bytes follow it in the file
IntPut ==
  /\ gi.pc = "put"
  /\ LET enc == ufPutLenBytes(gi.n, gi.large)
     IN  gi' = [gi EXCEPT !.pc = "get", !.enc = enc,
                          !.fil = MemFile(enc \o gi.trail)]
  /\ UNCHANGED <<pt, jd, fa, ix>>

\* the decoder reads a length
IntGet ==
  /\ gi.pc = "get"
  /\ LET g == ufGetInt(gi.fil, gi.large)
     IN  gi' = [gi EXCEPT !.pc = "done", !.fil = g.f, !.val = g.r]
  /\ UNCHANGED <<pt, jd, fa, ix>>

NextInt == IntPut \/ IntGet

SpecInt == InitInt /\ [][NextInt]_vars

(***************************************************************************)
(* Patch decoding: jpatch applied to a source file and to the patch        *)
(* written for an operation sequence.                                      *)
(***************************************************************************)
MaxOps == 2

MaxDta == 2

PatchBufSze == 4

PatchBlkSze == 2

PatchSrc == <<65, 66, 67, 68, 69, 70, 71, 72>>

DataSamples == SeqsUpTo({65, 0, ESC}, MaxDta) \ {<<>>}

OpSamples ==
  {LenOp(EQL, n) : n \in {1, 3, 8}} \cup {LenOp(DEL, n) : n \in {1, 2}}
    \cup {LenOp(BKT, n) : n \in {1, 2}}
    \cup {DtaOp(o, d) : o \in {MOD, INS}, d \in DataSamples}

InitPatch ==
  /\ gi = IdleInt
  /\ jd = IdleDiff
  /\ fa = IdleFile
  /\ ix = IdleIndex
  /\ \E ops \in SeqsUpTo(OpSamples, MaxOps), impl \in BOOLEAN,
        term \in BOOLEAN, large \in BOOLEAN :
       pt = [IdlePatch EXCEPT
               !.pc = "run", !.large = large, !.ops = ops, !.impl = impl,
               !.term = term,
               !.org = JFileAhead(PatchSrc, PatchBufSze, PatchBlkSze,
                                  FALSE, TRUE),
               !.pch = MemFile(patchOf(ops, impl, term, large))]

\* one turn of the loop of jpatch
PatchTurn ==
  /\ pt.pc = "run"
  /\ pt' = jpatchTurn(pt)
  /\ UNCHANGED <<gi, jd, fa, ix>>

NextPatch == PatchTurn

SpecPatch == InitPatch /\ [][NextPatch]_vars

(***************************************************************************)
(* Buffered reading: a JFileAhead on a file of FileLen distinct bytes is   *)
(* read at any position in any of the three modes, and its lookahead base  *)
(* is moved.  fa holds the reader, the last call and what it returned.     *)
(* The count of seeks (a statistic) restarts at every call, and so does    *)
(* rd, a history variable: the file positions rd.lo .. rd.hi - 1 are the   *)
(* ones jread has delivered (a call seeks before it reads, never between   *)
(* two reads), and beg, the first buffered position before the call.       *)
(***************************************************************************)
FileLen == 9

FileBufSze == 4

FileBlkSze == 2

FileDat == [i \in 1..FileLen |-> 100 + i]

\* a regular file, a regular file read as a stream (-p, -q), and a pipe
FileKinds ==
  {[seq |-> FALSE, skb |-> TRUE], [seq |-> TRUE, skb |-> TRUE],
   [seq |-> TRUE, skb |-> FALSE]}

FilePositions == 0..(FileLen + 1)

eAhead == {"Read", "HardAhead", "SoftAhead"}

InitFile ==
  /\ gi = IdleInt
  /\ pt = IdlePatch
  /\ jd = IdleDiff
  /\ ix = IdleIndex
  /\ \E k \in FileKinds :
       LET f0 == JFileAhead(FileDat, FileBufSze, FileBlkSze, k.seq, k.skb)
       IN  fa = [IdleFile EXCEPT !.f = f0, !.op = "open"]

FileOpen == fa.op # "none"

\* the call get(azPos, aiSft)
FileGetCall(azPos, aiSft) ==
  /\ FileOpen
  /\ LET Got(g) == [f |-> g.f, op |-> "get", pos |-> azPos, sft |-> aiSft,
                    r |-> g.r, beg |-> getBufPos(fa.f)]
     IN  fa' = Got(get([fa.f EXCEPT !.sek = 0, !.rd = [lo |-> 0, hi |-> 0]],
                       azPos, aiSft))
  /\ UNCHANGED <<gi, pt, jd, ix>>

FileRead == \E azPos \in FilePositions : FileGetCall(azPos, "Read")

FileHardAhead == \E azPos \in FilePositions : FileGetCall(azPos, "HardAhead")

FileSoftAhead == \E azPos \in FilePositions : FileGetCall(azPos, "SoftAhead")

\* the call set_lookahead_base(azBse)
FileSetBase ==
  /\ FileOpen
  /\ \E azBse \in FilePositions :
       fa' = [f |-> set_lookahead_base(fa.f, azBse), op |-> "base",
              pos |-> azBse, sft |-> "Read", r |-> 0,
              beg |-> getBufPos(fa.f)]
  /\ UNCHANGED <<gi, pt, jd, ix>>

NextFile == FileRead \/ FileHardAhead \/ FileSoftAhead \/ FileSetBase

SpecFile == InitFile /\ [][NextFile]_vars

(***************************************************************************)
(* The index on its own: add and get, the calls jdiff makes, on a table of *)
(* IndexPme slots.  ix holds the index, the last call with its result,     *)
(* and for every slot the pair that add stored there last.  The count of   *)
(* hits (a statistic) restarts at every call.  rst tells that reset was    *)
(* called, fresh holds the slots add has stored into since the last reset, *)
(* mbt is the size in megabytes the index was made with.  An index of no   *)
(* slots takes no call: add and get divide by the number of slots.         *)
(***************************************************************************)
IndexPme == 2

MaxColMax == 12

\* the calls of add an index takes before its load count has run out
MaxLoad == 4

IndexKeys == {<<0, 1>>, <<0, 2>>, <<0, 3>>}

IndexPositions == {1, 7}

\* sample qualities on both sides of SMPSZE * 2
IndexEqlCnts == {0, SMPSZE * 2 + 1}

IndexJunks == {[at |-> 0, pos |-> 0], [at |-> 1, pos |-> 5]}

InitIndex ==
  /\ gi = IdleInt
  /\ pt = IdlePatch
  /\ jd = IdleDiff
  /\ fa = IdleFile
  /\ \E j \in IndexJunks :
       ix = [IdleIndex EXCEPT
               !.op = "open",
               !.hp = [JHashPos(1, j, "wrapped") EXCEPT !.pme = IndexPme,
                                            !.lodCnt = IndexPme]]

\* the call add(akCurHsh, azPos, aiEqlCnt); add has stored the pair when it
\* has set miHshColCnt to miHshColMax
IndexAdd ==
  /\ ix.op # "none"
  /\ ix.hp.pme > 0
  /\ ix.hp.colMax < MaxColMax
  /\ ix.hp.pme - ix.hp.lodCnt < MaxLoad
  /\ \E akCurHsh \in IndexKeys, azPos \in IndexPositions,
        aiEqlCnt \in IndexEqlCnts :
       LET Done(h) ==
             [hp |-> h, op |-> "add", key |-> akCurHsh, pos |-> azPos,
              found |-> FALSE, r |-> 0,
              last |-> IF h.colCnt = h.colMax
                       THEN HshPut(ix.last, HshMod(akCurHsh, h.pme),
                                   [hsh |-> akCurHsh, pos |-> azPos])
                       ELSE ix.last,
              rst |-> ix.rst,
              fresh |-> IF h.colCnt = h.colMax
                        THEN ix.fresh \cup {HshMod(akCurHsh, h.pme)}
                        ELSE ix.fresh,
              mbt |-> ix.mbt]
       IN  ix' = Done(JHashPos_add([ix.hp EXCEPT !.hit = 0], akCurHsh, azPos,
                                   aiEqlCnt))
  /\ UNCHANGED <<gi, pt, jd, fa>>

\* the call get(akCurHsh, azPos)
IndexGet ==
  /\ ix.op # "none"
  /\ ix.hp.pme > 0
  /\ \E akCurHsh \in IndexKeys :
       LET Done(g) ==
             [hp |-> g.hp, op |-> "get", key |-> akCurHsh, pos |-> 0,
              found |-> g.found, r |-> g.pos, last |-> ix.last,
              rst |-> ix.rst, fresh |-> ix.fresh, mbt |-> ix.mbt]
       IN  ix' = Done(JHashPos_get([ix.hp EXCEPT !.hit = 0], akCurHsh))
  /\ UNCHANGED <<gi, pt, jd, fa>>

NextIndex == IndexAdd \/ IndexGet

SpecIndex == InitIndex /\ [][NextIndex]_vars

(***************************************************************************)
(* The sizes of the index: an index made with one of IndexBudgets          *)
(* megabytes, which are the sizes that getLowerPrime has an answer ready   *)
(* for, and the sizes around the largest that fits an int in bytes.        *)
(***************************************************************************)
BudgetMax == 4096

IndexBudgets == {1, 2, 96, 192, 384, 1536, 2047, 2048, BudgetMax}

InitBudget ==
  /\ gi = IdleInt
  /\ pt = IdlePatch
  /\ jd = IdleDiff
  /\ fa = IdleFile
  /\ \E aiSze \in IndexBudgets, ovf \in IntOverflows :
       ix = [IdleIndex EXCEPT
               !.op = "open", !.mbt = aiSze,
               !.hp = JHashPos(aiSze, [at |-> 0, pos |-> 0], ovf)]

SpecBudget == InitBudget /\ [][NextIndex]_vars

\* the call reset(), which jdiff does not make
IndexReset ==
  /\ ix.op # "none"
  /\ ix' = [ix EXCEPT !.hp = JHashPos_reset([@ EXCEPT !.hit = 0]),
                      !.op = "reset", !.key = HshZero, !.pos = 0,
                      !.found = FALSE, !.r = 0, !.rst = TRUE, !.fresh = {}]
  /\ UNCHANGED <<gi, pt, jd, fa>>

NextReset == IndexAdd \/ IndexGet \/ IndexReset

\* the index with all the calls of its interface
SpecReset == InitIndex /\ [][NextReset]_vars

(***************************************************************************)
(* Differences: jdiff applied to a source S and a destination D under the  *)
(* option settings of the command line, with file buffers of a few bytes.  *)
(***************************************************************************)
MaxTiny == 2

TinyBytes == {65, 66}

AnchorLen == 33

\* a run of bytes without repetition, long enough to hold two samples
Anchor == [i \in 1..AnchorLen |-> 70 + ((i * 7) % 23)]

Lead == <<1, 2, 3>>

LongPairs ==
  {<<Lead \o Anchor, Anchor>>, <<Anchor, Lead \o Anchor>>,
   <<Anchor, Anchor \o Anchor>>, <<Anchor, Anchor>>, <<<<>>, Anchor>>,
   <<Anchor, <<>>>>, <<Anchor \o Lead, Lead \o Anchor>>,
   <<Anchor, Anchor \o Lead \o Anchor>>}

\* three copies of the anchor: longer than the stream buffer
Anchor3 == Anchor \o Anchor \o Anchor

StreamPairs ==
  {<<Lead \o Anchor3, Anchor3>>, <<Anchor3, Lead \o Anchor3>>,
   <<Anchor \o Lead \o Anchor3, Anchor3 \o Anchor>>, <<Anchor3, Anchor3>>}

\* the index size of option -i 1, in megabytes
HshMbt == 1

\* the search window of option -a 4
AhdMax == 4096

\* option settings: the defaults, -f, -ff, -p, -q and -p -q, the last three
\* on a file and on a pipe
Options ==
  LET Opt(bkt, cmp, scn, max, min, so, ko, sn, kn) ==
        [abSrcBkt |-> bkt, abCmpAll |-> cmp, aiSrcScn |-> scn,
         aiMchMax |-> max, aiMchMin |-> min, abSeqOrg |-> so, skbOrg |-> ko,
         abSeqNew |-> sn, skbNew |-> kn]
  IN  {Opt(TRUE, TRUE, 1, 128, 2, FALSE, TRUE, FALSE, TRUE),
       Opt(TRUE, FALSE, 1, 64, 4, FALSE, TRUE, FALSE, TRUE),
       Opt(TRUE, FALSE, 0, 32, 2, FALSE, TRUE, FALSE, TRUE)}
      \cup {Opt(FALSE, FALSE, 0, 128, 2, TRUE, k, FALSE, TRUE) :
              k \in BOOLEAN}
      \cup {Opt(TRUE, TRUE, 1, 128, 0, FALSE, TRUE, TRUE, k) : k \in BOOLEAN}
      \cup {Opt(FALSE, FALSE, 0, 128, 0, TRUE, FALSE, TRUE, FALSE)}
      \cup {Opt(TRUE, TRUE, 1, 512, 4, TRUE, k, FALSE, TRUE) : k \in BOOLEAN}

RoomyBufSze == 128

RoomyBlkSze == 32

TightBufSze == 16

TightBlkSze == 4

StreamBufSze == 48

StreamBlkSze == 16

\* option settings that read a file as a stream: -q, -q -n 2 and -p -b -q
StreamOptions ==
  {o \in Options : o.abSeqNew /\ ~o.skbNew /\ o.abCmpAll}
  \cup {[abSrcBkt |-> TRUE, abCmpAll |-> TRUE, aiSrcScn |-> 1,
          aiMchMax |-> 128, aiMchMin |-> 2, abSeqOrg |-> FALSE,
          skbOrg |-> TRUE, abSeqNew |-> TRUE, skbNew |-> FALSE],
         [abSrcBkt |-> TRUE, abCmpAll |-> TRUE, aiSrcScn |-> 1,
          aiMchMax |-> 512, aiMchMin |-> 4, abSeqOrg |-> TRUE,
          skbOrg |-> FALSE, abSeqNew |-> TRUE, skbNew |-> FALSE]}

Buffers ==
  {[sze |-> RoomyBufSze, blk |-> RoomyBlkSze],
   [sze |-> TightBufSze, blk |-> TightBlkSze]}

NoJunk == [at |-> 0, pos |-> 0]

Junks == {NoJunk, [at |-> 1, pos |-> 5], [at |-> 2, pos |-> 1000]}

DiffCases ==
  {[S |-> s, D |-> t, opt |-> o, buf |-> b, sink |-> k, junk |-> NoJunk] :
     s \in SeqsUpTo(TinyBytes, MaxTiny), t \in SeqsUpTo(TinyBytes, MaxTiny),
     o \in Options, b \in {[sze |-> RoomyBufSze, blk |-> RoomyBlkSze]},
     k \in {"rgn", "bin"}}
  \cup {[S |-> p[1], D |-> p[2], opt |-> o, buf |-> b, sink |-> "bin",
         junk |-> j] :
          p \in LongPairs, o \in Options, b \in Buffers, j \in Junks}
  \cup {[S |-> p[1], D |-> p[2], opt |-> o,
         buf |-> [sze |-> StreamBufSze, blk |-> StreamBlkSze],
         sink |-> "rgn", junk |-> NoJunk] :
          p \in StreamPairs, o \in StreamOptions}

\* the run of jdiff for a case, before its first step
RunOf(c) ==
  JDiff(JFileAhead(c.S, c.buf.sze, c.buf.blk, c.opt.abSeqOrg, c.opt.skbOrg),
        JFileAhead(c.D, c.buf.sze, c.buf.blk, c.opt.abSeqNew, c.opt.skbNew),
        JOut(c.sink), HshMbt, c.opt.abSrcBkt, c.opt.aiSrcScn, c.opt.aiMchMax,
        c.opt.aiMchMin, AhdMax, c.opt.abCmpAll, c.junk)

InitDiff ==
  /\ gi = IdleInt
  /\ pt = IdlePatch
  /\ fa = IdleFile
  /\ ix = IdleIndex
  /\ \E c \in DiffCases : jd = RunOf(c)

Start ==
  /\ jd.pc = "start" /\ jd' = stepStart(jd) /\ UNCHANGED <<gi, pt, fa, ix>>

Loop ==
  /\ jd.pc = "loop" /\ jd' = stepLoop(jd) /\ UNCHANGED <<gi, pt, fa, ix>>

EqRun ==
  /\ jd.pc = "eqrun" /\ jd' = stepEqRun(jd) /\ UNCHANGED <<gi, pt, fa, ix>>

ModRun ==
  /\ jd.pc = "modrun" /\ jd' = stepModRun(jd) /\ UNCHANGED <<gi, pt, fa, ix>>

InsRun ==
  /\ jd.pc = "insrun" /\ jd' = stepInsRun(jd) /\ UNCHANGED <<gi, pt, fa, ix>>

End ==
  /\ jd.pc = "end" /\ jd' = stepEnd(jd) /\ UNCHANGED <<gi, pt, fa, ix>>

IndexInit ==
  /\ jd.pc = "bfi1" /\ jd' = stepIndexInit(jd) /\ UNCHANGED <<gi, pt, fa, ix>>

Index ==
  /\ jd.pc = "bfi2" /\ jd' = stepIndex(jd) /\ UNCHANGED <<gi, pt, fa, ix>>

Scan ==
  /\ jd.pc = "scan0" /\ jd' = stepScan(jd) /\ UNCHANGED <<gi, pt, fa, ix>>

Cleanup ==
  /\ jd.pc = "cln" /\ jd' = stepCleanup(jd) /\ UNCHANGED <<gi, pt, fa, ix>>

Check ==
  /\ jd.pc = "chk" /\ jd' = chkTurn(jd) /\ UNCHANGED <<gi, pt, fa, ix>>

HashInit ==
  /\ jd.pc = "hinit" /\ jd' = stepHashInit(jd) /\ UNCHANGED <<gi, pt, fa, ix>>

Look ==
  /\ jd.pc = "look" /\ jd' = stepLook(jd) /\ UNCHANGED <<gi, pt, fa, ix>>

Best ==
  /\ jd.pc = "best" /\ jd' = stepBest(jd) /\ UNCHANGED <<gi, pt, fa, ix>>

NextDiff ==
  \/ Start \/ Loop \/ EqRun \/ ModRun \/ InsRun \/ End \/ IndexInit
  \/ Index \/ Scan \/ Cleanup \/ Check \/ HashInit \/ Look \/ Best

SpecDiff == InitDiff /\ [][NextDiff]_vars

Returned == jd.pc = "done"

\* jdiff runs on until it returns: weak fairness of NextDiff, written out
\* as []<>~ENABLED <<NextDiff>>_vars \/ []<><<NextDiff>>_vars with the
\* enabling condition of a step of jdiff, that jdiff has not returned
FairDiff == []<>Returned \/ []<><<NextDiff>>_vars

SpecDiffFair == SpecDiff /\ FairDiff

(***************************************************************************)
(* Differences that fill the match table: the source is a row of blocks    *)
(* without repetition, the destination holds the first block and then the *)
(* other blocks in reverse order, between bytes that are not in the        *)
(* source, so that every block is a match of another distance; options     *)
(* -x 4 and -x 13 give a match table of 13 slots.                          *)
(***************************************************************************)
TableBlocks == 16

TableBlkLen == 40

TableBufSze == 1024

TableBlkSze == 256

\* the k-th block
Block(k) ==
  [i \in 1..TableBlkLen |-> (k * 37 + i * 7 + ((i * i) % 11)) % 251]

\* n blocks from the k-th on, in order or in reverse order
RECURSIVE Blocks(_, _, _)

Blocks(k, n, rev) ==
  IF n = 0 THEN <<>>
  ELSE IF rev THEN Blocks(k + 1, n - 1, rev) \o Block(k)
  ELSE Block(k) \o Blocks(k + 1, n - 1, rev)

\* options -x 4 and -x 13, with and without -p and -f
TableOptions ==
  {[abSrcBkt |-> TRUE, abCmpAll |-> c, aiSrcScn |-> n, aiMchMax |-> x,
    aiMchMin |-> 2, abSeqOrg |-> FALSE, skbOrg |-> TRUE, abSeqNew |-> FALSE,
    skbNew |-> TRUE] : c \in BOOLEAN, n \in {0, 1}, x \in {4, 13}}

TableCases ==
  {[S |-> Blocks(1, TableBlocks, FALSE),
    D |-> Lead \o Block(1) \o Blocks(2, TableBlocks - 1, TRUE) \o Lead,
    opt |-> o, buf |-> [sze |-> TableBufSze, blk |-> TableBlkSze],
    sink |-> "rgn", junk |-> NoJunk] : o \in TableOptions}

InitTable ==
  /\ gi = IdleInt
  /\ pt = IdlePatch
  /\ fa = IdleFile
  /\ ix = IdleIndex
  /\ \E c \in TableCases : jd = RunOf(c)

SpecTable == InitTable /\ [][NextDiff]_vars

(***************************************************************************)
(* Differences with gliding matches: a run of one byte that is longer in   *)
(* the destination than in the source, so that the samples of the run in   *)
(* the destination all find the one position of the source that the index  *)
(* holds for the run; the blocks of the table cases fill the match table   *)
(* before or after the run.                                                *)
(***************************************************************************)
GlideOrgLen == 80

GlideNewLen == 110

Glide(n) == [i \in 1..n |-> 97]

GlidePairs ==
  {<<Glide(GlideOrgLen) \o Blocks(1, TableBlocks, FALSE),
     Lead \o Glide(GlideNewLen) \o Block(1)
       \o Blocks(2, TableBlocks - 1, TRUE) \o Lead>>,
   <<Blocks(1, TableBlocks, FALSE) \o Glide(GlideOrgLen),
     Lead \o Block(1) \o Blocks(2, TableBlocks - 1, TRUE)
       \o Glide(GlideNewLen) \o Lead>>}

GlideCases ==
  {[S |-> p[1], D |-> p[2], opt |-> o,
    buf |-> [sze |-> TableBufSze, blk |-> TableBlkSze], sink |-> "rgn",
    junk |-> NoJunk] : p \in GlidePairs, o \in TableOptions}

InitGlide ==
  /\ gi = IdleInt
  /\ pt = IdlePatch
  /\ fa = IdleFile
  /\ ix = IdleIndex
  /\ \E c \in GlideCases : jd = RunOf(c)

SpecGlide == InitGlide /\ [][NextDiff]_vars

(***************************************************************************)
(* Differences of simple shapes: the destination is a prefix of the        *)
(* source, the source without its first bytes, the source after bytes put  *)
(* in front, or the source with one span of bytes changed; for sources     *)
(* shorter than a sample and for sources that hold one.                    *)
(***************************************************************************)
\* "AB", "ABABABAB", "HELLO", "X", "ABCDEF" and "ABZZEF"
TextAB == <<65, 66>>

TextABx4 == TextAB \o TextAB \o TextAB \o TextAB

TextHello == <<72, 69, 76, 76, 79>>

TextX == <<88>>

TextABCDEF == <<65, 66, 67, 68, 69, 70>>

TextABZZEF == <<65, 66, 90, 90, 69, 70>>

\* the anchor twice, and the same with two bytes changed in the middle
Anchor2 == Anchor \o Anchor

Anchor2Changed ==
  [i \in 1..(2 * AnchorLen) |->
     IF i \in {AnchorLen, AnchorLen + 1} THEN 1 ELSE Anchor2[i]]

\* t with its bytes i+1..j changed
SpanAt(t, i, j) == [n \in 1..Len(t) |-> IF n > i /\ n <= j THEN 1 ELSE t[n]]

ShapePairs ==
  {<<TextABx4, TextAB>>, <<Anchor \o Lead, Anchor>>, <<Anchor2, Anchor>>,
   <<TextX \o TextHello, TextHello>>, <<Lead \o Anchor, Anchor>>,
   <<TextHello, TextX \o TextHello>>, <<Anchor, Lead \o Anchor>>,
   <<TextABCDEF, TextABZZEF>>, <<Anchor2, Anchor2Changed>>,
   <<TextABCDEF, SpanAt(TextABCDEF, 0, 2)>>,
   <<TextABCDEF, SpanAt(TextABCDEF, 4, 6)>>,
   <<Anchor2, SpanAt(Anchor2, 0, AnchorLen)>>,
   <<Anchor2, SpanAt(Anchor2, AnchorLen, 2 * AnchorLen)>>,
   <<Anchor2, SpanAt(Anchor2, 16, 50)>>, <<Anchor \o Lead, Lead \o Anchor>>}

\* the option settings on files that can seek
ShapeOptions == {o \in Options : o.skbOrg /\ o.skbNew}

ShapeCases ==
  {[S |-> p[1], D |-> p[2], opt |-> o,
    buf |-> [sze |-> RoomyBufSze, blk |-> RoomyBlkSze], sink |-> k,
    junk |-> NoJunk] :
     p \in ShapePairs, o \in ShapeOptions, k \in {"rgn", "bin"}}

InitShape ==
  /\ gi = IdleInt
  /\ pt = IdlePatch
  /\ fa = IdleFile
  /\ ix = IdleIndex
  /\ \E c \in ShapeCases : jd = RunOf(c)

SpecShape == InitShape /\ [][NextDiff]_vars

(***************************************************************************)
(* main from the call of jdiff to exit, with the sink JOutRgn: the cases   *)
(* of the differences of simple shapes and of SpecDiff.                    *)
(***************************************************************************)
\* main, "Exit": the status given to exit for liRet
exitStatus(liRet) ==
  IF liRet \in {EXI_SEK, EXI_LRG, EXI_RED, EXI_WRI, EXI_MEM, EXI_ARG, EXI_ERR}
  THEN -liRet
  ELSE IF liRet = EXI_OK THEN EXI_OK
  ELSE IF liRet = EXI_EQL THEN EXI_OK
  ELSE IF liRet = EXI_DIF THEN EXI_DIF
  ELSE -EXI_ERR

\* main from the return of jdiff to exit
mainExit(d) ==
  LET Ret(liRet) == [d EXCEPT !.ret = liRet, !.exi = exitStatus(liRet),
                              !.pc = "exit"]
  IN  IF d.ret = EXI_OK
      THEN Ret(IF d.out.gzOutBytDta > 0 THEN EXI_DIF ELSE EXI_EQL)
      ELSE Ret(d.ret)

MainCases == {c \in DiffCases \cup ShapeCases : c.sink = "rgn"}

InitMain ==
  /\ gi = IdleInt
  /\ pt = IdlePatch
  /\ fa = IdleFile
  /\ ix = IdleIndex
  /\ \E c \in MainCases : jd = RunOf(c)

Exit ==
  /\ jd.pc = "done" /\ jd' = mainExit(jd) /\ UNCHANGED <<gi, pt, fa, ix>>

NextMain == NextDiff \/ Exit

SpecMain == InitMain /\ [][NextMain]_vars

(***************************************************************************)
(* A run of jdiff -ff in which the table is full when cleanup elects a     *)
(* match that add had marked invalid.  The two files hold bytes of a few   *)
(* neighbouring values, for which samples of different bytes have the same *)
(* hash key; the buffers are shorter than the files, and under -ff check   *)
(* does not read beyond the buffers.                                       *)
(***************************************************************************)
ReuseOrg ==
  <<
   187, 190, 194, 190, 193, 191, 186, 194, 185, 195, 191, 191, 189, 195, 185,
   194, 194, 185, 195, 191, 189, 192, 193, 187, 188, 189, 189, 191, 192, 192,
   187, 189, 184, 190, 185, 194, 191, 186, 195, 192, 190, 188, 192, 186, 190,
   187, 187, 184, 184, 186, 186, 184, 188, 193, 185, 190, 192, 190, 193, 192,
   186, 191, 195, 186, 192, 193, 185, 192, 186, 193, 192, 189, 194, 194, 184,
   195, 186, 187, 185, 193, 187, 191, 192, 188, 184, 186, 189, 193, 187, 191,
   192, 195, 193, 195, 194, 189, 190, 190, 195, 187, 187, 193, 185, 184, 190,
   192, 192, 188, 187, 194, 189, 189, 192, 193, 189, 194, 188, 186, 193, 189,
   190, 193, 194, 190, 187, 189, 192, 191, 184, 192, 192, 192, 184, 195, 193,
   190, 191, 192, 189, 188, 190, 194, 193, 187, 190, 187, 188, 184, 191, 193,
   192, 186, 190, 184, 186, 192, 193, 187, 194, 191, 195, 186, 185, 190, 186,
   193, 194, 192, 189, 184, 188, 188, 185, 191, 184, 185, 184, 189, 190, 193,
   195, 193, 184, 190, 187, 195, 186, 185, 192, 194, 192, 188, 185, 193, 185,
   194, 189, 193, 190, 193, 185, 194, 185, 189, 195, 190, 194, 192, 192, 187,
   184, 186, 184, 194, 193, 185, 192, 185, 190, 184, 187, 185, 194, 193, 191,
   192, 187, 184, 192, 192, 188, 185, 191, 186, 195, 185, 184, 184, 195, 184,
   190, 192, 184, 185, 191, 192, 193, 189, 191, 185, 193, 184, 184, 192, 192,
   192, 188, 195, 187, 190, 190, 192, 185, 184, 188, 195, 187, 192, 191, 192,
   187, 189, 195, 195, 189, 189, 195, 187, 184, 192, 194, 195, 184, 190, 185,
   191, 194, 190, 184, 189, 191, 190, 192, 186, 184, 190, 195, 188, 185, 194,
   189, 186, 191, 187, 191, 192, 187, 192, 187, 190, 185, 189, 193, 190, 192,
   184, 188, 192, 189, 194, 185, 195, 195, 184, 193, 191, 184, 186, 187, 189,
   187, 186, 187, 189, 189, 187, 194, 186, 184, 192, 186, 190, 189, 188, 190,
   195, 192, 192, 192, 192, 188, 184, 192, 185, 187, 195, 193, 186, 187, 186,
   192, 192, 195, 190, 186, 186, 190, 191, 194, 190, 186, 184, 186, 186, 195,
   195, 191, 185, 191, 187, 186, 187, 192, 185, 185, 185, 192, 190, 190, 184,
   185, 187, 187, 192, 190, 192, 192, 186, 187, 193, 193, 193, 192, 185, 191,
   185, 186, 185, 184, 190, 195, 184, 191, 185, 187, 187, 184, 192, 187, 187,
   185, 184, 190, 192, 185, 195, 190, 192, 190, 188, 192, 184, 191, 187, 191,
   190, 191, 192, 194, 186, 189, 189, 192, 193, 190, 184, 192, 185, 190, 189,
   184, 186, 185, 188, 187, 194, 194, 186, 184, 187, 184, 187, 187, 188, 192,
   191, 188, 185, 190, 192, 185, 187, 192, 194, 184, 193, 194, 184, 192, 195,
   195, 190, 190, 186, 185, 189, 185, 194, 191, 187, 187, 194, 194, 190, 190,
   184, 195, 187, 190, 192, 195, 192, 195, 192, 184, 192, 186, 192, 184, 195,
   191, 193, 193, 193, 185, 192, 186, 185, 187, 185, 192, 192, 188, 184, 188,
   184, 186, 187, 192, 184, 193, 187, 186, 184, 194, 185, 195, 189, 192, 186,
   185, 194, 195, 190, 192, 184, 188, 194, 188, 192, 190, 186, 195, 192, 184,
   193, 195, 194, 189, 193, 186, 184, 184, 194, 185, 192, 195, 184, 193, 190,
   191, 194, 184, 187, 185, 190, 193, 194, 189, 188, 185, 191, 187, 190, 192,
   192, 186, 190, 188, 192, 195, 186, 192, 185, 192, 194, 187, 189, 186, 185,
   185, 187, 195, 194, 187, 192, 184, 190, 191, 187, 190, 184, 194, 188, 187,
   195, 187, 193, 193, 187, 187, 192, 190, 194, 184, 192, 191, 189, 189, 191,
   193, 187, 184, 185, 193, 191, 194, 188, 190, 192, 189, 184, 187, 194, 195,
   192, 194, 192, 190, 184, 185, 185, 193, 184, 187, 184, 192, 195, 184, 190,
   192, 187, 192, 184, 191, 188, 191, 192, 191, 187, 192, 195, 190, 192, 187,
   192, 192, 188, 188, 189, 190, 189, 191, 190, 184, 184, 190, 184, 190, 192,
   187, 192, 190, 190, 185, 190, 189, 192, 191, 185, 189, 194, 192, 193, 191,
   195, 193, 185, 189, 187, 191, 187, 191, 195, 190, 184, 188, 192, 184, 184,
   195, 195, 192, 195, 190, 194, 195, 192, 193, 191, 194, 191, 187, 192, 189,
   186, 186, 190, 195, 189, 192, 184, 189, 185, 194, 191, 192, 191, 191, 184,
   189, 192, 191, 187, 190, 192, 185, 192, 188, 189, 187, 195, 189, 190, 189,
   189, 190, 186, 195, 184, 195, 188, 193, 190, 190, 195, 195, 193, 184, 187,
   184, 195, 192, 190, 192, 188, 192, 186, 185, 195, 188, 184, 195, 195, 184,
   190, 185, 185, 185, 187, 195, 192, 184, 190, 189, 188, 187, 184, 188, 194,
   189, 192, 187, 185, 186, 184, 186, 186, 192, 194, 184, 194, 195, 189, 188,
   194, 192, 187, 184, 188, 195, 189, 190, 185, 192, 191, 187, 191, 187, 190,
   195, 189, 195, 191, 188, 192, 188, 187, 189, 191, 189, 194, 195, 184, 185,
   192, 190, 191, 191, 193, 194, 191, 187, 186, 192, 189, 186, 193, 185, 192,
   188, 192, 189, 195, 190, 187, 193, 195, 192, 188, 189, 195, 185, 184, 191,
   186, 194, 195, 190, 191, 187, 192, 194, 194, 194, 192, 190, 191, 192, 188,
   185, 188, 191, 191, 194, 194, 195, 184, 185, 192, 184, 195, 186, 190, 193,
   192, 192, 193, 184, 192, 193, 192, 194, 191, 186, 187, 190, 194, 186, 192,
   184, 187, 187, 186, 187, 187, 186, 192, 185, 194, 195, 189, 186, 192, 188,
   192, 191, 194, 195, 191, 187, 185, 192, 185, 184, 184, 189, 186, 186, 189,
   193, 195, 189, 189, 186, 186, 192, 195, 194, 185, 184, 194, 185, 195, 185,
   186, 189, 192, 187, 194, 187, 184, 188, 194, 190, 195, 185, 191, 191, 193,
   192, 194, 191, 188, 192, 195, 194, 191, 187, 190, 192, 187, 190, 187, 189,
   188, 190, 192, 188, 188, 191, 194, 184, 195, 184, 193, 184, 185, 189, 185,
   188, 187, 187, 184, 191, 192, 190, 190, 192, 184, 195, 193, 187, 185, 187,
   195, 191, 194, 195, 194, 186, 187, 186, 190, 190, 184, 193, 191, 191, 187,
   187, 190, 194, 191, 188, 190, 187, 192, 195, 188, 192, 192, 189, 187, 184,
   191, 185, 191, 184, 187, 189, 187, 185, 195, 193, 186, 195, 185, 187, 185,
   185, 193, 192, 191, 192, 186, 186, 195, 185, 190, 192, 184, 184, 186, 195,
   186, 188, 192, 187, 186, 190, 187, 185, 193, 194, 184, 190, 186, 192, 185,
   193, 190, 194, 191, 192, 194, 192, 186, 195, 194, 189, 184, 184, 184, 194,
   191, 185, 189, 190, 194, 192, 186>>

ReuseNew ==
  <<
   193, 192, 184, 187, 193, 187, 189, 185, 191, 194, 195, 189, 193, 184, 184,
   190, 195, 188, 192, 186, 187, 191, 194, 191, 187, 185, 189, 186, 195, 184,
   186, 187, 186, 186, 187, 193, 192, 184, 189, 192, 190, 193, 185, 192, 186,
   193, 189, 189, 193, 193, 184, 192, 192, 187, 194, 195, 184, 192, 190, 191,
   188, 184, 187, 186, 184, 188, 188, 184, 185, 189, 185, 188, 191, 187, 190,
   184, 192, 188, 194, 190, 190, 185, 191, 187, 193, 187, 194, 195, 187, 194,
   193, 195, 192, 189, 184, 188, 188, 185, 188, 186, 192, 188, 192, 193, 189,
   194, 188, 193, 193, 187, 190, 193, 194, 190, 187, 186, 192, 185, 194, 195,
   189, 186, 192, 195, 193, 190, 190, 192, 184, 190, 193, 195, 193, 184, 190,
   187, 195, 187, 187, 188, 192, 185, 192, 192, 189, 185, 187, 191, 192, 191,
   191, 184, 185, 195, 193, 186, 195, 185, 187, 185, 194, 193, 191, 191, 192,
   186, 186, 195, 185, 190, 192, 184, 194, 186, 195, 186, 188, 192, 187, 186,
   190, 187, 185, 193, 184, 187, 185, 195, 194, 194, 189, 185, 189, 188, 192,
   195, 195, 185, 191, 192, 192, 192, 186, 194, 195, 191, 187, 191, 190, 186,
   185, 189, 193, 190, 192, 184, 192, 192, 187, 190, 194, 192, 184, 192, 188,
   192, 186, 185, 195, 192, 187, 190, 190, 192, 185, 190, 188, 195, 186, 190,
   185, 184, 190, 191, 192, 187, 195, 184, 193, 190, 191, 190, 191, 190, 194,
   191, 188, 187, 191, 195, 184, 190, 190, 188, 185, 190, 192, 187, 187, 186,
   192, 185, 194, 194, 192, 190, 191, 192, 195, 192, 184, 192, 186, 192, 184,
   195, 194, 185, 195, 191, 191, 189, 195, 185, 187, 194, 192, 195, 188, 184,
   188, 192, 190, 192, 191, 195, 190, 189, 195, 185, 185, 188, 186, 195, 188,
   185, 194, 190, 195, 185, 191, 191, 193, 192, 194, 191, 188, 192, 195, 194,
   191, 187, 190, 192, 187, 190, 187, 189, 188, 190, 192, 188, 188, 191, 194,
   184, 195, 184, 193, 184, 185, 189, 185, 188, 187, 187, 184, 191, 192, 190,
   190, 192, 184, 195, 193, 187, 185, 187, 195, 191, 194, 195, 194, 186, 187,
   186, 190, 190, 184, 193, 191, 191, 187, 187, 190, 194, 191, 188, 190, 187,
   192, 195, 188, 192, 192, 189, 187, 184, 191, 185, 191, 184, 187, 189, 187,
   185, 195, 193, 186, 195, 185, 187, 185, 185, 193, 192, 191, 192, 186, 186,
   195, 185, 190, 192, 184, 184, 186, 195, 186, 188, 192, 187, 186, 190, 187,
   185, 193, 194, 184, 190, 186, 192, 185, 193, 190, 194, 191, 192, 194, 192,
   186, 195, 194, 190, 192, 187, 190, 187, 189, 188, 190, 192, 188, 188, 191,
   194, 184, 195, 184, 193, 184, 185, 189, 185, 188, 187, 187, 184, 191, 192,
   190, 190, 192, 184, 195, 193, 187, 185, 187, 195, 191, 194, 195, 194, 186,
   187, 186, 190, 190, 184, 193, 191, 191, 187, 187, 190, 194, 191, 188, 190,
   187, 192, 195, 188, 192, 192, 189, 187, 184, 191, 185, 191, 184, 187, 189,
   187, 185, 195, 193, 186, 195, 185, 187, 185, 185, 193, 192, 191, 192, 186,
   186, 195, 185, 190, 192, 184, 184, 186, 195, 186, 188, 192, 187, 186, 190,
   187, 185, 193, 194, 184, 190, 186, 192, 185, 195, 187, 188, 185, 190, 189,
   190, 193, 192, 186, 191, 191, 187, 195, 185, 186, 194, 186, 192, 184, 184,
   191, 193, 188, 193, 190, 190, 195, 195, 193, 184, 184, 192, 187, 186, 187,
   189, 195, 187, 189, 192, 184, 192, 192, 185, 188, 185, 189, 195, 192, 184,
   195, 186, 193, 187, 193, 189, 189, 192, 186, 188, 189, 195, 192, 195, 186,
   188, 189, 188, 191, 194, 192, 191, 188, 185, 191, 190, 194, 194, 192, 193,
   191, 188, 188, 186, 184, 191, 184, 184, 189, 195, 194, 191, 188, 192, 195,
   189, 191, 187, 194, 195, 184, 193, 184, 185, 184, 186, 187, 189, 187, 186,
   185, 189, 191, 185, 184, 192, 191, 184, 187, 188, 185, 194, 192, 190, 184,
   192, 186, 191, 195, 184, 192, 187, 190, 192, 187, 190, 195, 189, 188, 184,
   186, 187, 189, 195, 190, 192, 184, 184, 194, 194, 195, 194, 194, 190, 186,
   191, 187, 191, 192, 187, 192, 187, 190, 186, 192, 187, 186, 193, 185, 192,
   188, 188, 190, 186, 185, 195, 188, 184, 193, 191, 192, 185, 187, 186, 193,
   188, 186, 190, 193, 194, 190, 184, 186, 187, 192, 192, 184, 191, 186, 194,
   195, 190, 191, 187, 188, 187, 185, 194, 195, 189, 186, 190, 195, 192, 195,
   195, 191, 193, 184, 195, 186, 188, 192, 184, 185, 195, 184, 190, 185, 193,
   185, 193, 195, 193, 190, 191, 192, 195, 188, 190, 192, 193, 190, 185, 187,
   192, 193, 185, 195, 187, 191, 187, 191, 185, 191, 191, 195, 185, 186, 189,
   192, 187, 194, 187, 184, 188, 194, 190, 195, 185, 191, 191, 193, 192, 194,
   191, 188, 192, 195, 194, 191, 187, 190, 192, 187, 190, 187, 189, 188, 190,
   192, 188, 188, 191, 194, 184, 195, 184, 193, 184, 185, 189, 185, 188, 187,
   187, 184, 191, 192, 190, 190, 192, 184, 195, 193, 187, 185, 187, 195, 191,
   194, 195, 194, 186, 187, 186, 190, 190, 184, 193, 191, 191, 187, 187, 190,
   194, 191, 188, 190, 187, 192, 195, 188, 192, 192, 189, 187, 184, 191, 185,
   191, 184, 187, 189, 187, 185, 195, 193, 186, 195, 185, 187, 185, 185, 193,
   192, 191, 192, 186, 186, 195, 185, 190, 192, 184, 184, 186, 195, 186, 188,
   192, 187, 186, 190, 187, 185, 193, 194, 187, 187, 186, 188, 192, 189, 184,
   187, 195, 188, 191, 192, 188, 184, 192, 191, 185, 187, 192, 185, 191, 187,
   193, 192, 186, 195, 195, 191, 192, 184, 195, 185, 189, 194, 191, 184, 189,
   192, 193, 193, 192, 186, 190, 184, 186, 192, 193, 187, 194, 191, 195, 186,
   185, 190, 186, 193, 194, 192, 189, 184, 188, 188, 185, 191, 184, 185, 184,
   189, 190, 193, 195, 193, 194, 187, 189, 192, 184, 188, 192, 184, 191, 187,
   191, 190, 194, 191, 189, 192, 193, 189, 194, 195, 184, 194, 189, 193, 186,
   190, 187, 189, 191, 185, 187, 194, 190, 184, 189, 191, 189, 185, 191, 194,
   195, 189, 193, 184, 184, 190, 195, 188, 192, 186, 187, 191, 194, 191, 187,
   185, 189, 186, 188, 194, 190, 195, 192, 195, 191, 184, 187, 192, 189, 187,
   192, 190, 184, 188, 193, 190, 190, 195, 195, 193, 184, 187, 189, 191, 188,
   184, 192, 190, 184, 184, 185, 186, 190, 195, 185, 191, 184, 192, 192, 187,
   194, 191, 195, 186, 185, 190, 186, 193, 194, 192, 189, 184, 188, 189, 185,
   191, 184, 185, 184, 189, 190, 193, 193, 193, 184, 190, 187, 195, 186, 185,
   192, 184, 190, 191, 195, 186, 192, 193, 185, 192, 186, 193, 192, 189, 194,
   194, 184, 195, 186, 187, 185, 193, 187, 191, 192, 188, 184, 186, 189, 193,
   187, 191, 188, 192, 195, 191, 192, 192, 192, 194, 195, 195, 185, 188, 189,
   189, 191, 192, 193, 187, 189, 184, 190, 185, 194, 191, 186, 195, 192, 190,
   188, 192, 186, 190, 187, 187, 184, 185, 186, 186, 184, 188, 188, 189, 184,
   195, 195, 187, 184, 187, 190, 195, 190, 187, 185, 193, 187, 191, 192, 188,
   184, 186, 189, 193, 187, 191, 192, 195, 193, 195, 194, 189, 190, 190, 195,
   187, 187, 193, 185, 184, 190, 192, 192, 188, 184, 187, 195, 184, 192, 194,
   194, 184, 190, 185, 191, 194, 190, 184, 189, 191, 190, 192, 187, 184, 186,
   195, 188, 185, 194, 189, 186, 189, 189, 192, 192, 189, 192, 193, 187, 189,
   184, 191, 195, 194, 190, 187, 189, 192, 191, 184, 192, 194, 192, 184, 195,
   193, 190, 190, 192, 189, 188, 195, 186, 193, 185, 192, 186, 193, 192, 189,
   194, 195, 184, 195, 186, 187, 185, 193, 187, 191, 192, 188, 184, 186, 189,
   193, 187, 191, 195, 188, 195, 195, 192, 185, 188, 187, 194, 189, 190, 192,
   193, 189, 194, 188, 186, 193, 189, 190, 193, 194, 190, 187, 189, 192, 191,
   184, 192, 192, 192, 184, 195, 193, 190, 186, 195, 184, 185, 192, 194, 192,
   188, 195, 187, 190, 191, 191, 185, 184, 188, 195, 187, 192, 191, 192>>

ReuseBufSze == 1100

ReuseBlkSze == 100

\* the run above, and the differences of simple shapes under a full index
ReuseCases ==
  {[S |-> ReuseOrg, D |-> ReuseNew,
    opt |-> [abSrcBkt |-> TRUE, abCmpAll |-> FALSE, aiSrcScn |-> 0,
             aiMchMax |-> 4, aiMchMin |-> 8, abSeqOrg |-> FALSE,
             skbOrg |-> TRUE, abSeqNew |-> FALSE, skbNew |-> TRUE],
    buf |-> [sze |-> ReuseBufSze, blk |-> ReuseBlkSze], sink |-> "rgn",
    junk |-> NoJunk]}
  \cup {c \in ShapeCases : c.sink = "rgn" /\ c.opt.aiSrcScn = 1}

InitReuse ==
  /\ gi = IdleInt
  /\ pt = IdlePatch
  /\ fa = IdleFile
  /\ ix = IdleIndex
  /\ \E c \in ReuseCases : jd = RunOf(c)

SpecReuse == InitReuse /\ [][NextDiff]_vars

(***************************************************************************)
(* A run of jdiff -f in which getbest elects a match whose compare had     *)
(* reached the end of the buffer and that add has enlarged since.  The     *)
(* source is longer than its buffer, which holds the end of the source     *)
(* once the index is built; the destination is the start of the source     *)
(* with two changes.                                                       *)
(***************************************************************************)
EobOrg ==
  <<2, 3, 4, 0, 7, 4, 4, 0, 4, 2, 1, 0, 3, 2, 0, 0, 1, 5, 7, 7, 3, 6, 7, 1,
    5, 6, 6, 7, 3, 7, 2, 5, 7, 1, 2, 6, 7, 3, 4, 6, 1, 0, 5, 3, 4, 0, 6, 7,
    4, 3, 2, 1, 2, 0, 5, 4, 4, 6, 3, 2, 2, 4, 3, 3, 7, 3, 7, 3, 2, 6, 0, 0,
    4, 2, 4, 0, 3, 7, 1, 4, 4, 4, 0, 2, 0, 2, 2, 3, 0, 7, 6, 2, 5, 2, 6, 7,
    4, 4, 7>>

EobNew ==
  <<2, 3, 4, 0, 7, 4, 4, 0, 4, 2, 1, 0, 3, 2, 0, 0, 1, 5, 7, 7, 3, 6, 7, 1,
    5, 6, 6, 7, 3, 7, 2, 5, 7, 1, 1, 6, 6, 3, 3, 4, 6, 1, 0, 5, 3, 4, 0, 6,
    7, 4, 3, 2, 1, 2, 0, 5, 4, 4, 6, 3, 2, 2, 4, 3, 3, 7, 3, 7, 3, 2, 6>>

EobBufSze == 64

EobBlkSze == 16

\* the run above, and the differences of simple shapes without full index
EobCases ==
  {[S |-> EobOrg, D |-> EobNew,
    opt |-> [abSrcBkt |-> TRUE, abCmpAll |-> FALSE, aiSrcScn |-> 1,
             aiMchMax |-> 4, aiMchMin |-> 4, abSeqOrg |-> FALSE,
             skbOrg |-> TRUE, abSeqNew |-> FALSE, skbNew |-> TRUE],
    buf |-> [sze |-> EobBufSze, blk |-> EobBlkSze], sink |-> "rgn",
    junk |-> NoJunk]}
  \cup {c \in ShapeCases : c.sink = "rgn" /\ c.opt.aiSrcScn = 0}

InitEob ==
  /\ gi = IdleInt
  /\ pt = IdlePatch
  /\ fa = IdleFile
  /\ ix = IdleIndex
  /\ \E c \in EobCases : jd = RunOf(c)

SpecEob == InitEob /\ [][NextDiff]_vars

(***************************************************************************)
(* Runs of jdiff in which search initialises the hash of the destination   *)
(* within the file: the two files are equal up to position RehashAt, far   *)
(* enough for the read position to have left the first samples behind, and *)
(* differ in one byte there.  The destination holds a run of one byte from *)
(* beg to end, before, across or within the bytes that are hashed again.   *)
(***************************************************************************)
RehashLen == 260

RehashAt == 200

RehashGap == 33

RehashBufSze == 32

RehashBlkSze == 8

RehashRuns ==
  {[beg |-> 0, end |-> 0], [beg |-> 50, end |-> 92], [beg |-> 50, end |-> 120],
   [beg |-> 50, end |-> 121], [beg |-> 50, end |-> 122],
   [beg |-> 50, end |-> 140], [beg |-> 50, end |-> 190],
   [beg |-> 100, end |-> 104], [beg |-> 100, end |-> 150],
   [beg |-> 150, end |-> 250]}

RehashNew(r) ==
  [i \in 1..RehashLen |->
     IF i - 1 >= r.beg /\ i - 1 < r.end THEN 65 ELSE (i * i) % 251]

\* the source differs at RehashAt and RehashGap bytes later
RehashOrg(r) ==
  [RehashNew(r) EXCEPT ![RehashAt + 1] = 1, ![RehashAt + 1 + RehashGap] = 2]

\* the defaults, and -q on a file and on a pipe; in RehashCases also the
\* differences of simple shapes without full index
RehashOptions ==
  {o \in Options : o.abSrcBkt /\ o.abCmpAll /\ o.aiSrcScn = 1 /\ ~o.abSeqOrg}

RehashCases ==
  {[S |-> RehashOrg(r), D |-> RehashNew(r), opt |-> o, buf |-> b,
    sink |-> "rgn", junk |-> NoJunk] :
     r \in RehashRuns, o \in RehashOptions,
     b \in Buffers \cup {[sze |-> RehashBufSze, blk |-> RehashBlkSze]}}
  \cup {c \in ShapeCases : c.sink = "rgn" /\ c.opt.aiSrcScn = 0}

InitRehash ==
  /\ gi = IdleInt
  /\ pt = IdlePatch
  /\ fa = IdleFile
  /\ ix = IdleIndex
  /\ \E c \in RehashCases : jd = RunOf(c)

SpecRehash == InitRehash /\ [][NextDiff]_vars

(***************************************************************************)
(* Runs of jdiff on an index of ScanPme slots, so that the load count runs *)
(* out and the collision threshold miHshColMax grows within a short        *)
(* source.  The sources hold a run of one byte longer than SMPSZE * 2.     *)
(***************************************************************************)
ScanPme == 5

ScanLen == 70

ScanRun == [i \in 1..ScanLen |-> 66]

ScanPairs ==
  {<<ScanRun \o Anchor, Anchor \o ScanRun>>, <<Anchor \o ScanRun, ScanRun>>,
   <<Lead \o ScanRun, ScanRun \o Lead>>}

ScanCases ==
  {[S |-> p[1], D |-> p[2], opt |-> o,
    buf |-> [sze |-> RoomyBufSze, blk |-> RoomyBlkSze], sink |-> "rgn",
    junk |-> NoJunk] : p \in ScanPairs, o \in ShapeOptions}
  \cup {c \in ShapeCases : c.sink = "rgn"}

InitScan ==
  /\ gi = IdleInt
  /\ pt = IdlePatch
  /\ fa = IdleFile
  /\ ix = IdleIndex
  /\ \E c \in ScanCases :
       jd = [RunOf(c) EXCEPT !.hsh.pme = ScanPme, !.hsh.lodCnt = ScanPme]

SpecScan == InitScan /\ [][NextDiff]_vars

(***************************************************************************)
(* check on its own: a call of check by isGoodOrBest for a match that add  *)
(* has just allocated, with the positions, the number of bytes to compare  *)
(* and the gliding distance drawn from small sets.  The source is a run of *)
(* one byte, so that the runs of equal bytes are the runs of that byte in  *)
(* the destination; in the cases with a long run, the two files hold more  *)
(* than EQLMAX equal bytes.                                                *)
(***************************************************************************)
CheckLen == 9

CheckBufSze == 8

CheckBlkSze == 4

CheckBudgets == {0, 3, CheckLen}

CheckGlides == {0, 2}

CheckOrgs == {0, 2}

\* hard reading with a buffer that holds the files, soft reading with a
\* buffer that does not
CheckModes ==
  {[cmpAll |-> TRUE, buf |-> [sze |-> RoomyBufSze, blk |-> RoomyBlkSze]],
   [cmpAll |-> FALSE, buf |-> [sze |-> CheckBufSze, blk |-> CheckBlkSze]]}

\* a run of more than EQLMAX bytes
CheckRunLen == 260

CheckRun == [i \in 1..CheckRunLen |-> 65]

CheckCases ==
  {[S |-> [i \in 1..CheckLen |-> 65], D |-> t, org |-> o, len |-> n,
    gld |-> g, mode |-> k] :
     t \in [1..CheckLen -> TinyBytes], o \in CheckOrgs, n \in CheckBudgets,
     g \in CheckGlides, k \in CheckModes}
  \cup {[S |-> CheckRun, D |-> t, org |-> o, len |-> n, gld |-> g,
         mode |-> k] :
          t \in {CheckRun, <<66>> \o CheckRun}, o \in CheckOrgs,
          n \in CheckBudgets, g \in CheckGlides,
          k \in {m \in CheckModes : m.cmpAll}}

\* jdiff before its first step, by the mode of reading, the files apart
CheckRuns ==
  [k \in CheckModes |->
     RunOf([S |-> <<>>, D |-> <<>>,
            opt |-> [abSrcBkt |-> TRUE, abCmpAll |-> k.cmpAll,
                     aiSrcScn |-> 1, aiMchMax |-> 128, aiMchMin |-> 2,
                     abSeqOrg |-> FALSE, skbOrg |-> TRUE,
                     abSeqNew |-> FALSE, skbNew |-> TRUE],
            buf |-> k.buf, sink |-> "rgn", junk |-> NoJunk])]

\* jdiff at the call of check(org, 0, len, gld, mode) in isGoodOrBest, for
\* the match of org and 0 that add has allocated
CheckCall(c) ==
  LET At(d, a) ==
        [d EXCEPT !.pc = "chk",
                  !.mch = [a.m EXCEPT !.miRlb = d.hsh.rlb],
                  !.ev = [NoEval EXCEPT !.cur = a.cur, !.ret = "add"],
                  !.ck = [NoCheck EXCEPT !.posOrg = c.org, !.len = c.len,
                                         !.gld = c.gld, !.dlt = c.org]]
      Of(d) == At(d, addFind(d.mch, c.org, 0))
  IN  Of([CheckRuns[c.mode] EXCEPT
            !.org = JFileAhead(c.S, c.mode.buf.sze, c.mode.buf.blk, FALSE,
                               TRUE),
            !.new = JFileAhead(c.D, c.mode.buf.sze, c.mode.buf.blk, FALSE,
                               TRUE)])

InitCheck ==
  /\ gi = IdleInt
  /\ pt = IdlePatch
  /\ fa = IdleFile
  /\ ix = IdleIndex
  /\ \E c \in CheckCases : jd = CheckCall(c)

NextCheck == Check

SpecCheck == InitCheck /\ [][NextCheck]_vars

(***************************************************************************)
(* Properties of the differences.                                          *)
(***************************************************************************)
\* the calls of put so far
Emitted == jd.out.ops

KindsOf(ops) == {ops[k].op : k \in 1..Len(ops)}

RECURSIVE LenSum(_, _)
\* the total length of the operations o of ops
LenSum(ops, o) ==
  IF ops = <<>> THEN 0
  ELSE (IF Head(ops).op = o THEN Head(ops).len ELSE 0) + LenSum(Tail(ops), o)

RECURSIVE DataOf(_, _)
\* the data bytes of the operations o of ops, in their order
DataOf(ops, o) ==
  IF ops = <<>> THEN <<>>
  ELSE (IF Head(ops).op = o THEN Head(ops).dat ELSE <<>>)
       \o DataOf(Tail(ops), o)

RECURSIVE shapeFrom(_, _)
\* the operations of ops as runs: calls of put of one kind that follow one
\* another make one run, of the sum of their lengths
shapeFrom(ops, run) ==
  IF ops = <<>> THEN <<run>>
  ELSE IF Head(ops).op = run[1]
  THEN shapeFrom(Tail(ops), <<run[1], run[2] + Head(ops).len>>)
  ELSE <<run>> \o shapeFrom(Tail(ops), <<Head(ops).op, Head(ops).len>>)

shapeOf(ops) ==
  IF ops = <<>> THEN <<>>
  ELSE shapeFrom(Tail(ops), <<Head(ops).op, Head(ops).len>>)

\* t is s after its first k bytes
IsSuffixFrom(s, t, k) ==
  /\ Len(s) = k + Len(t)
  /\ \A i \in 1..Len(t) : s[k + i] = t[i]

\* t is the first bytes of s
IsPrefixOf(t, s) ==
  /\ Len(t) <= Len(s)
  /\ \A i \in 1..Len(t) : s[i] = t[i]

\* the terminator put(ESC, 0) is the last call and the only one with ESC
TerminatorLast ==
  /\ Emitted # <<>>
  /\ Emitted[Len(Emitted)].op = ESC
  /\ Emitted[Len(Emitted)].len = 0
  /\ Cardinality({k \in 1..Len(Emitted) : Emitted[k].op = ESC}) = 1

\* a read of jdiff has returned a code below EOB
HardError == jd.lcOrg < EOB \/ jd.lcNew < EOB

\* lzBseOrg of search: 0, or the first source position in the buffer
BaseOrg == IF jd.mbSrcBkt THEN 0 ELSE Max(jd.s_lzBseOrg, getBufPos(jd.org))

C2_Terminates ==
  /\ <>Returned
  /\ [](Returned /\ jd.ret = EXI_OK =>
          TerminatorLast /\ jd.lzEql = 0 /\ ~jd.lbEql)

\* jdiff has returned after flushing a pending run of equal bytes
C2_Witness ==
  /\ Returned /\ jd.ret = EXI_OK /\ TerminatorLast
  /\ Len(Emitted) >= 2
  /\ Emitted[Len(Emitted) - 1].op = EQL
  /\ Emitted[Len(Emitted) - 1].len > 1

\* C3: posNew never decreases from one put to the next, and posOrg is never
\* below baseOrg, also right after a BKT.
C3_Positions ==
  /\ \A k \in 1..(Len(Emitted) - 1) :
        Emitted[k].posNew <= Emitted[k + 1].posNew
  /\ \A k \in 1..Len(Emitted) :
        /\ Emitted[k].posOrg >= 0
        /\ Emitted[k].op = BKT => Emitted[k].posOrg - Emitted[k].len >= 0
  /\ jd.lzPosOrg >= BaseOrg

\* a BKT limited by lzBseOrg has just brought posOrg down to baseOrg
C3_Witness ==
  /\ jd.org.dat = Anchor /\ jd.new.dat = Anchor \o Lead \o Anchor
  /\ Emitted # <<>>
  /\ Emitted[Len(Emitted)].op = BKT
  /\ Emitted[Len(Emitted)].len = AnchorLen
  /\ jd.lzPosOrg = BaseOrg

\* C4: when D equals S, jdiff puts only EQL, of total length len(S), and
\* then the terminator, and never enters search.
C4_Identity ==
  jd.org.dat = jd.new.dat =>
    /\ jd.pc \in {"start", "loop", "eqrun", "end", "done"}
    /\ KindsOf(Emitted) \subseteq {EQL, ESC}
    /\ Returned =>
          /\ TerminatorLast
          /\ LenSum(Emitted, EQL) = Len(jd.org.dat)
          /\ jd.org.dat = <<>> => Len(Emitted) = 1

\* jdiff has returned for three anchors compared with themselves
C4_Witness ==
  /\ Returned
  /\ jd.org.dat = Anchor3 /\ jd.new.dat = Anchor3
  /\ LenSum(Emitted, EQL) = 3 * AnchorLen

\* C5: when S is empty, jdiff puts every byte of D as an INS, in the order
\* of D, nothing else, and then one terminator.
C5_EmptySource ==
  jd.org.dat = <<>> =>
    /\ KindsOf(Emitted) \subseteq {INS, ESC}
    /\ \A k \in 1..Len(Emitted) :
          Emitted[k].op = INS =>
            Emitted[k].dat = <<jd.new.dat[Emitted[k].posNew + 1]>>
    /\ Returned =>
          /\ TerminatorLast
          /\ DataOf(Emitted, INS) = jd.new.dat

\* jdiff has returned for the anchor compared with nothing
C5_Witness ==
  /\ Returned
  /\ jd.org.dat = <<>> /\ jd.new.dat = Anchor
  /\ Len(Emitted) = AnchorLen + 1

\* C6: when D is empty, jdiff puts the terminator and nothing else, puts
\* nothing in the index and returns OK.
C6_EmptyDestination ==
  jd.new.dat = <<>> =>
    /\ jd.pc \in {"start", "loop", "end", "done"}
    /\ DOMAIN jd.hsh.tbl = {} /\ jd.mzAhdOrg = 0
    /\ Emitted = IF Returned
                 THEN <<[op |-> ESC, len |-> 0, dat |-> <<>>, posOrg |-> 0,
                         posNew |-> 0]>>
                 ELSE <<>>
    /\ Returned => jd.ret = EXI_OK

\* jdiff has returned for nothing compared with the anchor
C6_Witness ==
  /\ Returned
  /\ jd.org.dat = Anchor /\ jd.new.dat = <<>>
  /\ Len(Emitted) = 1

\* C7: once a read of the source or of the destination has returned a code
\* below EOB, jdiff puts nothing more and returns an error code.
C7_StopsAtError ==
  [][HardError =>
       /\ jd'.out.ops = jd.out.ops
       /\ jd'.pc = "done" => jd'.ret < EOB]_vars

(***************************************************************************)
(* Properties of buffered reading.                                         *)
(***************************************************************************)
\* the last call was get in the given mode
GotIn(aiSft) == fa.op = "get" /\ fa.sft = aiSft

\* the buffer and the stream under it are the same before and after a step
BufferKept ==
  /\ fa'.f.buf = fa.f.buf /\ fa'.f.inp = fa.f.inp /\ fa'.f.usd = fa.f.usd
  /\ fa'.f.posInp = fa.f.posInp /\ fa'.f.fp = fa.f.fp
  /\ fa'.f.posBse = fa.f.posBse /\ fa'.f.posEof = fa.f.posEof

\* C11: every get, in any mode and after any calls of get and of
\* set_lookahead_base, that returns a value >= 0 returns the byte of the
\* file at the position asked for.
C11_ByteAtPos ==
  (fa.op = "get" /\ fa.r >= 0) =>
    (fa.pos < FileLen /\ fa.r = FileDat[fa.pos + 1])

\* C12, as stated: get(pos, SoftAhead) returns EOB whenever
\* pos > base + W - B or pos is before the first buffered position.
C12_SoftEob ==
  [][(/\ fa'.op = "get" /\ fa'.sft = "SoftAhead"
      /\ \/ fa'.pos > fa.f.posBse + fa.f.W - fa.f.B
         \/ fa'.pos < getBufPos(fa.f))
     => fa'.r = EOB]_vars

\* C12, amended: get(pos, SoftAhead) returns EOB whenever pos is before the
\* first buffered position, or pos is not in the buffer, is before the end
\* of file found so far, and pos > base + W - B.
C12_SoftEobUnbuffered ==
  [][(/\ fa'.op = "get" /\ fa'.sft = "SoftAhead"
      /\ \/ fa'.pos < getBufPos(fa.f)
         \/ /\ fa'.pos > fa.f.posBse + fa.f.W - fa.f.B
            /\ fa'.pos >= fa.f.posInp
            /\ fa'.pos < fa.f.posEof)
     => fa'.r = EOB]_vars

\* a soft read beyond base + W - B, where a block could still be appended,
\* has returned EOB, the base having been moved
C12_Witness ==
  /\ GotIn("SoftAhead") /\ fa.r = EOB
  /\ fa.f.posBse > 0
  /\ fa.pos > fa.f.posBse + fa.f.W - fa.f.B
  /\ fa.pos >= fa.f.posInp /\ fa.pos < fa.f.posInp + fa.f.W
  /\ fa.pos < FileLen

\* C13: on a sequential stream, get(pos, HardAhead) before the first
\* buffered byte returns EOB without a seek and leaves the buffer as it is,
\* get(pos, Read) there returns the seek error, and get(pos, HardAhead)
\* from the end of the buffer on brings pos into the buffer (or finds the
\* end of the file).
C13_Sequential ==
  [][(fa.f.seq /\ fa'.op = "get") =>
       /\ (fa'.sft = "HardAhead" /\ fa'.pos < getBufPos(fa.f)) =>
             (fa'.r = EOB /\ fa'.f.sek = 0 /\ BufferKept)
       /\ (fa'.sft = "Read" /\ fa'.pos < getBufPos(fa.f)) =>
             fa'.r = EXI_SEK
       /\ (fa'.sft = "HardAhead" /\ fa'.pos >= fa.f.posInp) =>
             \/ /\ fa'.pos >= FileLen /\ fa'.r = EOF
             \/ /\ fa'.pos < FileLen /\ fa'.r >= 0
                /\ fa'.pos < fa'.f.posInp
                /\ fa'.pos >= getBufPos(fa'.f)
                /\ getBufPos(fa'.f) >= getBufPos(fa.f)]_vars

\* C14: get(pos, Read) never returns EOB.
C14_ReadNeverEob == GotIn("Read") => fa.r # EOB

\* a read before the start of the buffer has moved the buffer back with a
\* seek and returned the byte
C14_Witness ==
  /\ GotIn("Read") /\ fa.r >= 0
  /\ fa.f.sek > 0
  /\ fa.f.posInp - fa.f.usd <= fa.pos
  /\ fa.f.posInp > fa.pos + fa.f.B

\* the file positions the buffer of f holds
BufRange(f) == getBufPos(f)..(f.posInp - 1)

\* the buffer of f holds at the place of position p the byte of the file
HoldsByte(f, p) == f.buf[bufAddr(f, p).p] = f.dat[p + 1]

\* the file positions jread has delivered in the last call
ReadFromFile(f) == f.rd.lo..(f.rd.hi - 1)

\* a step of get(pos, Read) or get(pos, HardAhead) on a file that is not
\* sequential, for a position before the first buffered byte but within
\* W - B of it
ScrollbackAsked ==
  /\ fa'.op = "get" /\ fa'.sft \in {"Read", "HardAhead"}
  /\ ~fa.f.seq
  /\ fa'.pos < getBufPos(fa.f)
  /\ fa'.pos + fa.f.W - fa.f.B > getBufPos(fa.f)

\* C39, as stated: such a request scrolls the window back: afterwards the
\* buffer is one contiguous range of the file that starts at the block
\* containing pos, and every position that was buffered before and lies
\* within W bytes of the new start is still buffered and has not been read
\* from the file again.
C39_Scrollback ==
  [][ScrollbackAsked =>
       LET lzPos == (fa'.pos \div fa.f.B) * fa.f.B
       IN  /\ getBufPos(fa'.f) = lzPos
           /\ fa'.pos \in BufRange(fa'.f)
           /\ \A p \in BufRange(fa'.f) : HoldsByte(fa'.f, p)
           /\ \A p \in BufRange(fa.f) :
                p < lzPos + fa.f.W =>
                  /\ p \in BufRange(fa'.f)
                  /\ p \notin ReadFromFile(fa'.f)]_vars

\* C39, amended: afterwards the buffer is one contiguous range of the file
\* that starts at the block containing pos, pos is in it, and every position
\* that was buffered before and lies within W bytes of the new start is
\* still buffered.  The bytes read from the file are the whole blocks from
\* the new start up to the block that holds the last position before the
\* old start (as far as the file goes): a position buffered before is read
\* again exactly when it lies in that block, which is when the old buffer
\* did not start at a block.
C39_ScrollbackBlocks ==
  [][ScrollbackAsked =>
       LET lzPos == (fa'.pos \div fa.f.B) * fa.f.B
           lzEnd == (((getBufPos(fa.f) - 1) \div fa.f.B) + 1) * fa.f.B
       IN  /\ getBufPos(fa'.f) = lzPos
           /\ fa'.pos \in BufRange(fa'.f)
           /\ \A p \in BufRange(fa'.f) : HoldsByte(fa'.f, p)
           /\ \A p \in BufRange(fa.f) :
                p < lzPos + fa.f.W => p \in BufRange(fa'.f)
           /\ ReadFromFile(fa'.f) = lzPos..(Min(lzEnd, Len(fa.f.dat)) - 1)]_vars

\* a scrollback has dropped the end of a full buffer that did not start at a
\* block, kept the rest, and read one block, a byte of it for the second time
C39_Witness ==
  /\ GotIn("Read") /\ ~fa.f.seq /\ fa.r >= 0
  /\ fa.f.sek = 2
  /\ getBufPos(fa.f) = fa.f.rd.lo
  /\ fa.pos < fa.beg /\ fa.beg < fa.pos + fa.f.W - fa.f.B
  /\ fa.f.rd.hi = fa.beg + 1
  /\ fa.f.usd = fa.f.W /\ fa.f.posInp < fa.f.posEof

(***************************************************************************)
(* Properties of the index.                                                *)
(***************************************************************************)
\* C15: get(h) reports the position p exactly when the pair add stored
\* last in slot h mod P is (h, p), reports no entry when the slot holds
\* another key or was never written, and changes nothing in the table.
C15_GetReports ==
  [][ix'.op = "get" =>
       LET s == HshMod(ix'.key, ix.hp.pme)
       IN  /\ ix'.found <=> (s \in DOMAIN ix.last /\ ix.last[s].hsh = ix'.key)
           /\ ix'.found => ix'.r = ix.last[s].pos
           /\ \A x \in DOMAIN ix.hp.tbl : ix'.hp.tbl[x] = ix.hp.tbl[x]]_vars

\* C38: after reset() no get(h) returns a pair that add stored before the
\* reset: a pair that get reports from a slot add has written was stored
\* there by a call of add later than the last reset.
C38_NoneAfterReset ==
  [][(ix.rst /\ ix'.op = "get" /\ ix'.found) =>
       LET s == HshMod(ix'.key, ix.hp.pme)
       IN  (s \in DOMAIN ix.last
            /\ ix.last[s] = [hsh |-> ix'.key, pos |-> ix'.r]) =>
             s \in ix.fresh]_vars

\* a step of jdiff has called add of the index, and add has stored the pair
AddCalled == jd'.hsh.lodCnt # jd.hsh.lodCnt

AddStored == AddCalled /\ jd'.hsh.colCnt = jd'.hsh.colMax

\* the key of the sample that ends at position p of S: JDiff::hash applied
\* to the bytes S[0..p], from the first values of the hash, of the previous
\* byte and of the count of equal bytes
RECURSIVE RollFrom(_, _, _, _)

RollFrom(S, k, p, st) ==
  LET Rolled(h) == IF h.eql >= 0 THEN RollFrom(S, k + 1, p, h) ELSE h.h
  IN  IF k > p THEN st.h
      ELSE Rolled(hash(st.h, st.old, S[k + 1], st.eql))

RollHash(S, p) == RollFrom(S, 0, p, [h |-> HshZero, old |-> EOF, eql |-> 0])

\* C16: every pair (h, p) that jdiff stores in the index, by the full scan
\* or by the incremental scan, has p < len(S) and h the key of the sample
\* of the source that ends at p.
C16_EntriesHashed ==
  [][AddStored =>
       /\ jd'.hsh.lst.pos >= 0 /\ jd'.hsh.lst.pos < Len(jd.org.dat)
       /\ jd'.hsh.lst.hsh = RollHash(jd.org.dat, jd'.hsh.lst.pos)]_vars

\* C17: jdiff never calls add of the index with the source position 0,
\* neither in the full scan nor in the incremental scan.
C17_NeverZero == [][AddCalled => jd'.hsh.lst.pos # 0]_vars

\* C18: the reliability distance and the collision threshold of the index
\* never decrease while jdiff adds to the index and looks keys up.
C18_Monotone ==
  [][ix'.hp.rlb >= ix.hp.rlb /\ ix'.hp.colMax >= ix.hp.colMax]_vars

\* the load count has wrapped twice: both have grown by 8
C18_Witness ==
  /\ ix.op = "add"
  /\ ix.hp.rlb = SMPSZE + SMPSZE \div 2 + 8
  /\ ix.hp.colMax = COLLISION_THRESHOLD + 8

(***************************************************************************)
(* Properties of the match table.                                          *)
(***************************************************************************)
\* the matches from lpCur on along ipNxt, lpEnd the last one (NullPtr: up
\* to the end of the list); a pointer that is no match of the table ends
\* the walk and is part of the result
RECURSIVE listFrom(_, _, _, _)

listFrom(m, lpCur, lpEnd, n) ==
  IF lpCur = NullPtr \/ n = 0 THEN <<>>
  ELSE IF lpCur \notin DOMAIN m.msMch \/ lpCur = lpEnd THEN <<lpCur>>
  ELSE <<lpCur>> \o listFrom(m, m.msMch[lpCur].ipNxt, lpEnd, n - 1)

\* the list of the new matches, from mpNew to mpLst
newList(m) ==
  IF m.mpNew = NullPtr THEN <<>>
  ELSE listFrom(m, m.mpNew, m.mpLst, m.miMchSze + 1)

\* the list of the old matches, from mpOld to the null pointer
oldList(m) == listFrom(m, m.mpOld, NullPtr, m.miMchSze + 1)

\* every match in use is on one list, once
accounted(m) ==
  LET l == newList(m) \o oldList(m)
  IN  /\ Len(l) + m.miMchFre = m.miMchSze
      /\ \A i \in 1..Len(l) : l[i] \in m.miMchFre..(m.miMchSze - 1)
      /\ \A i, j \in 1..Len(l) : l[i] = l[j] => i = j

\* no call of add or of cleanup is under way
TableAtRest == jd.pc \notin {"idle", "chk", "cln"}

\* C19: after every completed add, cleanup and getbest, the matches on the
\* new list, the matches on the old list and the free slots add up to the
\* size of the match table, and no match is on both lists or twice on one.
C19_Accounted == TableAtRest => accounted(jd.mch)

\* the table is full, a match was reused, and there are matches on both
\* lists
C19_Witness ==
  /\ TableAtRest /\ jd.mch.reu /\ jd.mch.miMchFre = 0
  /\ Len(newList(jd.mch)) >= 2 /\ Len(oldList(jd.mch)) >= 2

\* check has returned in this step
CheckReturned == jd.pc = "chk" /\ jd'.pc # "chk"

\* the k bytes of the source from org on are the k bytes of the
\* destination from new on
sameBytes(d, org, new, k) ==
  /\ org >= 0 /\ org + k <= Len(d.org.dat)
  /\ new >= 0 /\ new + k <= Len(d.new.dat)
  /\ \A i \in 1..k : d.org.dat[org + i] = d.new.dat[new + i]

ProperPrefix ==
  /\ jd.new.dat # <<>>
  /\ Len(jd.new.dat) < Len(jd.org.dat)
  /\ IsPrefixOf(jd.new.dat, jd.org.dat)

\* C21, as stated: when D is a proper prefix of S, jdiff puts an EQL of
\* len(D), then a DEL of the len(S) - len(D) source bytes that remain, then
\* the terminator.
C21_PrefixDel ==
  (Returned /\ ProperPrefix) =>
    shapeOf(Emitted) = <<<<EQL, Len(jd.new.dat)>>,
                         <<DEL, Len(jd.org.dat) - Len(jd.new.dat)>>,
                         <<ESC, 0>>>>

\* C21, amended: when D is a proper prefix of S, jdiff puts an EQL of
\* len(D) and then the terminator; it puts no DEL for the source bytes that
\* remain, never enters search, and returns OK.
C21_PrefixEql ==
  ProperPrefix =>
    /\ jd.pc \in {"start", "loop", "eqrun", "end", "done"}
    /\ KindsOf(Emitted) \subseteq {EQL, ESC}
    /\ Returned =>
          /\ shapeOf(Emitted) = <<<<EQL, Len(jd.new.dat)>>, <<ESC, 0>>>>
          /\ jd.lzPosOrg = Len(jd.new.dat)
          /\ jd.ret = EXI_OK

\* jdiff has returned for "ABABABAB" compared with "AB"
C21_Witness ==
  /\ Returned
  /\ jd.org.dat = TextABx4 /\ jd.new.dat = TextAB
  /\ LenSum(Emitted, EQL) = 2

\* D is S without its first k bytes, 0 < k < len(S)
Stripped(k) ==
  /\ k > 0 /\ k < Len(jd.org.dat)
  /\ IsSuffixFrom(jd.org.dat, jd.new.dat, k)

\* the first search, at the first byte of both files, has found a solution
\* k source bytes ahead: the first call of put is the DEL of lzSkpOrg = k
DelAtStart(k) ==
  /\ Emitted # <<>>
  /\ Emitted[1].op = DEL /\ Emitted[1].len = k
  /\ Emitted[1].posOrg = 0 /\ Emitted[1].posNew = 0

Prefixed(k) ==
  /\ k > 0 /\ jd.org.dat # <<>>
  /\ IsSuffixFrom(jd.new.dat, jd.org.dat, k)

\* the first search, at the first byte of both files, has found a solution
\* k destination bytes ahead: the first k calls of put are the INS of
\* lzSkpNew = k, and the next call is no INS
InsAtStart(k) ==
  /\ Len(Emitted) > k
  /\ \A i \in 1..k : /\ Emitted[i].op = INS
                      /\ Emitted[i].posOrg = 0 /\ Emitted[i].posNew = i - 1
  /\ Emitted[k + 1].op # INS

OneSpan(i, j) ==
  /\ Len(jd.org.dat) = Len(jd.new.dat)
  /\ i >= 0 /\ i < j /\ j <= Len(jd.new.dat)
  /\ \A n \in 1..Len(jd.new.dat) :
        jd.org.dat[n] # jd.new.dat[n] <=> (n > i /\ n <= j)

\* the runs EQL i, MOD j - i, EQL n - j and the terminator, without the
\* runs of no byte
spanShape(i, j, n) ==
  (IF i > 0 THEN <<<<EQL, i>>>> ELSE <<>>) \o <<<<MOD, j - i>>>>
  \o (IF n > j THEN <<<<EQL, n - j>>>> ELSE <<>>) \o <<<<ESC, 0>>>>

InPlace == KindsOf(Emitted) \subseteq {EQL, MOD, ESC}

Exited == jd.pc = "exit"

\* C25: after a diff that completes without error the exit status is 1
\* when differences were found and 2 when none were found.
C25_ExitStatus ==
  (Exited /\ jd.ret \in {EXI_DIF, EXI_EQL}) =>
    jd.exi = IF jd.ret = EXI_DIF THEN EXI_DIF ELSE EXI_EQL

RECURSIVE cursorsFrom(_, _, _, _)
\* the calls of ops from the k-th on are each made with the positions the
\* decoder has after the calls before it, org in the source and new in the
\* output: EQL and MOD advance both, INS the output, DEL the source, and BKT
\* takes the source back
cursorsFrom(ops, k, org, new) ==
  IF k > Len(ops) THEN [ok |-> TRUE, org |-> org, new |-> new]
  ELSE IF ops[k].posOrg # org \/ ops[k].posNew # new
  THEN [ok |-> FALSE, org |-> org, new |-> new]
  ELSE cursorsFrom(ops, k + 1,
                   org + (IF ops[k].op \in {EQL, MOD, DEL} THEN ops[k].len
                          ELSE IF ops[k].op = BKT THEN -ops[k].len ELSE 0),
                   new + (IF ops[k].op \in {EQL, MOD, INS} THEN ops[k].len
                          ELSE 0))

\* the equal bytes jdiff has read and not given to put
Pending == jd.lzEql + (IF jd.pc = "eqrun" THEN jd.lzCnt ELSE 0)

\* C26: every call of put is made with the positions that the decoder has
\* after the calls before it, and the positions of jdiff, less the equal
\* bytes it still holds, are those the decoder has after all calls so far.
C26_Cursors ==
  jd.pc \notin {"idle", "exit"} =>
    LET K(c) ==
          /\ c.ok
          /\ jd.lzPosOrg - Pending = c.org
          /\ jd.lzPosNew - Pending = c.new
    IN  K(cursorsFrom(Emitted, 1, 0, 0))

\* jdiff has put EQL, INS and a BKT, and holds equal bytes it has read
\* after the BKT
C26_Witness ==
  /\ {EQL, INS, BKT} \subseteq KindsOf(Emitted)
  /\ jd.pc = "loop" /\ jd.lzEql > 0

\* search has returned in this step, with a solution
SearchFound == jd.pc = "best" /\ jd'.pc # "done" /\ jd'.liFnd = 1

\* C27: whenever search returns 1 with the offsets lzSkpOrg, lzSkpNew and
\* lzAhd for the solution lzFndOrg/lzFndNew of getbest, the offsets lead
\* from the read positions to the solution in both files, lzSkpNew and lzAhd
\* are not negative, and the skip in the source does not go below lzBseOrg.
C27_Offsets ==
  [][SearchFound =>
       /\ jd.lzPosOrg + jd'.lzSkpOrg + jd'.lzAhd = jd'.mch.mzBstOrg
       /\ jd.lzPosNew + jd'.lzSkpNew + jd'.lzAhd = jd'.mch.mzBstNew
       /\ jd'.lzSkpNew >= 0
       /\ jd'.lzAhd >= 0
       /\ jd.lzPosOrg + jd'.lzSkpOrg >= jd.s_lzBseOrg]_vars

\* search has returned a solution behind lzBseOrg: jdiff has gone back to
\* lzBseOrg and is about to put the bytes in between as INS
C27_Witness ==
  /\ jd.pc = "insrun" /\ jd.liFnd = 1
  /\ jd.lzSkpOrg < 0 /\ jd.lzSkpNew > 0
  /\ jd.lzPosOrg = jd.s_lzBseOrg

\* the places of search
SearchPcs == {"bfi1", "bfi2", "scan0", "cln", "chk", "hinit", "look", "best"}

\* jdiff calls search in this step
SearchCalled == jd.pc = "loop" /\ jd'.pc \in SearchPcs

\* search has returned in this step, without a solution
SearchNotFound == jd.pc = "best" /\ jd'.pc # "done" /\ jd'.liFnd = 0

\* C28: a search that finds no solution returns lzSkpOrg = lzSkpNew = 0 and
\* lzAhd >= SMPSZE, and when jdiff calls search the next time it has put at
\* least lzAhd more bytes of the destination, as EQL, MOD or INS.
C28_NoSolution ==
  [][/\ SearchNotFound =>
          /\ jd'.lzSkpOrg = 0 /\ jd'.lzSkpNew = 0
          /\ jd'.lzAhd >= SMPSZE
          /\ jd'.lzPosNew = jd.lzPosNew
     /\ (SearchCalled /\ jd.srch.fnd = 0) =>
          /\ jd.lzPosNew >= jd.srch.posNew + jd.srch.ahd
          /\ LenSum(Emitted', EQL) + LenSum(Emitted', MOD)
               + LenSum(Emitted', INS) = jd.lzPosNew]_vars

\* jdiff is in a search that follows a search without a solution
C28_Witness ==
  /\ jd.pc \in SearchPcs /\ jd.srch.fnd = 0 /\ jd.liFnd = 0
  /\ jd.lzPosNew >= jd.srch.posNew + SMPSZE

\* the match table has a slot for a new match: a free one, or an old one
Room == jd.mch.miMchFre > 0 \/ jd.mch.mpOld # NullPtr

\* C29: add never returns Error: whenever the loop of search may call add,
\* the table has a free slot or the old list is not empty, because the loop
\* ends once add or cleanup has reported Full.
C29_NoError ==
  /\ ~jd.mch.err
  /\ (jd.pc = "look" /\ jd.s_liMax > 0) => Room

\* the table is full and the loop of search has ended for it
C29_Witness ==
  /\ jd.pc = "look" /\ jd.s_liMax = 0
  /\ ~Room /\ jd.mch.reu

\* C30: between a cleanup and the getbest that follows, add never reuses
\* the match that is the best one: the head of the old list it takes is
\* never mpBst, whatever its iiCmp.
C30_BestKept == ~jd.mch.rbs

\* the matches of a bucket of the colliding (col) or of the gliding
\* hashtable, from lpCur on along ipCol or ipGld
RECURSIVE chainFrom(_, _, _, _)

chainFrom(m, lpCur, col, n) ==
  IF lpCur = NullPtr \/ n = 0 THEN <<>>
  ELSE IF lpCur \notin DOMAIN m.msMch THEN <<lpCur>>
  ELSE <<lpCur>>
       \o chainFrom(m, IF col THEN m.msMch[lpCur].ipCol
                       ELSE m.msMch[lpCur].ipGld, col, n - 1)

colChain(m, liIdx) ==
  chainFrom(m, headOf(m.mpCol, liIdx), TRUE, m.miMchSze + 1)

gldChain(m, liIdx) ==
  chainFrom(m, headOf(m.mpGld, liIdx), FALSE, m.miMchSze + 1)

onChain(l, lpCur) == \E k \in 1..Len(l) : l[k] = lpCur

\* the matches in use: msMch[miMchFre] up to msMch[miMchSze - 1]
inUse(m) == m.miMchFre..(m.miMchSze - 1)

\* every match in use is on the chains of its keys, and the chains hold
\* nothing else
linked(m) ==
  /\ \A i \in inUse(m) :
       LET Of(r, inCol, inGld) ==
             IF r.iiCnt = 1 THEN inCol /\ inGld ELSE inCol # inGld
       IN  Of(m.msMch[i],
              onChain(colChain(m, abs(m.msMch[i].izDlt) % m.miMchPme), i),
              onChain(gldChain(m, m.msMch[i].izOrg % m.miMchPme), i))
  /\ \A b \in 0..(m.miMchPme - 1) :
       /\ \A k \in 1..Len(colChain(m, b)) :
            /\ colChain(m, b)[k] \in inUse(m)
            /\ abs(m.msMch[colChain(m, b)[k]].izDlt) % m.miMchPme = b
       /\ \A k \in 1..Len(gldChain(m, b)) :
            /\ gldChain(m, b)[k] \in inUse(m)
            /\ m.msMch[gldChain(m, b)[k]].izOrg % m.miMchPme = b

\* C31: between the calls of the match table, a match with iiCnt = 1 is on
\* the colliding chain of abs(izDlt) % miMchPme and on the gliding chain of
\* izOrg % miMchPme, a match with iiCnt > 1 is on one of the two only, and
\* a chain holds no unused element and no match of another bucket.
C31_Linked == TableAtRest => linked(jd.mch)

\* the table is full, a match was reused, one match with iiCnt > 1 is on a
\* colliding chain and another one on a gliding chain
C31_Witness ==
  /\ TableAtRest /\ jd.mch.reu /\ jd.mch.miMchFre = 0
  /\ \E i, j \in inUse(jd.mch) :
       /\ jd.mch.msMch[i].iiCnt > 1 /\ jd.mch.msMch[j].iiCnt > 1
       /\ onChain(colChain(jd.mch, abs(jd.mch.msMch[i].izDlt)
                                     % jd.mch.miMchPme), i)
       /\ onChain(gldChain(jd.mch, jd.mch.msMch[j].izOrg
                                     % jd.mch.miMchPme), j)

\* getbest returns true in this step
GetbestTrue ==
  /\ jd.pc = "best" /\ jd.miValNew >= EOB
  /\ jd'.mch.mpBst # NullPtr

\* the best match after the step is a colliding one
BestCollides == jd'.mch.msMch[jd'.mch.mpBst].iiGld = 0

\* C32: whenever getbest returns true and the best match is a colliding one
\* (iiGld = 0), the positions it returns are on the alignment of that match:
\* mzBstOrg - mzBstNew is its izDlt, also when getbest itself elected the
\* match on re-evaluating the enlarged end-of-buffer matches.
C32_OnDelta ==
  [][(GetbestTrue /\ BestCollides)
       => jd'.mch.mzBstOrg - jd'.mch.mzBstNew
            = jd'.mch.msMch[jd'.mch.mpBst].izDlt]_vars

\* C33: whenever check returns r > 0, r is between EQLMIN + 1 and EQLMAX,
\* the positions it leaves are the start of r equal bytes of the two files,
\* and for a colliding match (aiGld = 0) they are as far apart as the
\* positions check was called with.
C33_EqualRun ==
  [][(CheckReturned /\ jd'.ck.ret > 0) =>
       /\ jd'.ck.ret \in (EQLMIN + 1)..EQLMAX
       /\ sameBytes(jd, jd'.ck.posOrg, jd'.ck.posNew, jd'.ck.ret)
       /\ jd.ck.gld = 0
            => jd'.ck.posOrg - jd'.ck.posNew = jd.ck.dlt]_vars

\* check has returned EQLMAX for a colliding match, from positions behind
\* the ones it was called with
C33_Witness ==
  /\ jd.pc # "chk" /\ jd.ck.ret = EQLMAX /\ jd.ck.gld = 0
  /\ jd.ck.posNew > 0

\* C34, as stated: isGoodOrBest returns Best for a compare length of EQLMAX
\* or more, Good for one of EQLSZE or more, Valid for one above 0, and
\* Invalid for every compare length of 0 or less.
C34_ByLength ==
  jd.ev.res # "None" =>
    jd.ev.res = IF jd.ev.cmp >= EQLMAX THEN "Best"
                ELSE IF jd.ev.cmp >= EQLSZE THEN "Good"
                ELSE IF jd.ev.cmp > 0 THEN "Valid"
                ELSE "Invalid"

\* C34, amended: isGoodOrBest returns Invalid exactly for the compare length
\* 0.  For a solution that starts at the read position it returns Best for
\* a length of EQLMAX or more, Good for one of EQLSZE or more and Valid for
\* every other length but 0, the negative ones of a compare that ended at
\* the end of the buffer included.  For a solution that starts elsewhere it
\* returns Valid whatever its length, 0 apart.
C34_ByLengthAndPlace ==
  jd.ev.res # "None" =>
    /\ jd.ev.res = "Invalid" <=> jd.ev.cmp = 0
    /\ jd.ev.res = "Best" <=> jd.ev.tst = jd.ev.red /\ jd.ev.cmp >= EQLMAX
    /\ jd.ev.res = "Good" <=>
         jd.ev.tst = jd.ev.red /\ jd.ev.cmp >= EQLSZE /\ jd.ev.cmp < EQLMAX
    /\ jd.ev.res = "Valid" <=>
         \/ jd.ev.cmp # 0 /\ jd.ev.tst # jd.ev.red
         \/ jd.ev.cmp # 0 /\ jd.ev.cmp < EQLSZE

\* isGoodOrBest has returned Valid for a compare that ended at the end of
\* the buffer
C34_Witness == jd.ev.res = "Valid" /\ jd.ev.cmp < 0

\* isGoodOrBest has returned Valid for EQLMAX equal bytes that start after
\* the read position
C34_Elsewhere ==
  jd.ev.res = "Valid" /\ jd.ev.cmp >= EQLMAX /\ jd.ev.tst # jd.ev.red

\* C35: in every colliding match of the table (iiGld = 0) the delta is the
\* distance of the two positions of the match, izDlt = izOrg - izNew, also
\* after later hits of the same delta have joined the match.
C35_Delta ==
  \A lpCur \in DOMAIN jd.mch.msMch :
    jd.mch.msMch[lpCur].iiGld = 0 =>
      jd.mch.msMch[lpCur].izDlt =
        jd.mch.msMch[lpCur].izOrg - jd.mch.msMch[lpCur].izNew

\* in every match the delta is the distance of the source position and the
\* first destination position
C35_DeltaAtFirst ==
  \A lpCur \in DOMAIN jd.mch.msMch :
    jd.mch.msMch[lpCur].izDlt =
      jd.mch.msMch[lpCur].izOrg - jd.mch.msMch[lpCur].izBeg

\* JDiff::hash applied to the n bytes of S from position k on: the key, the
\* previous byte and the count of equal bytes after them
RECURSIVE RollState(_, _, _, _)

RollState(S, k, n, st) ==
  LET Rolled(h) == IF h.eql >= 0 THEN RollState(S, k + 1, n - 1, h) ELSE h
  IN  IF n = 0 THEN st ELSE Rolled(hash(st.h, st.old, S[k + 1], st.eql))

RollBlock == 16

\* the key of hashing S[k..p] from the values st on, block by block
RECURSIVE RollFar(_, _, _, _)

RollFar(S, k, p, st) ==
  LET Rolled(h) ==
        IF h.eql >= 0 THEN RollFar(S, k + RollBlock, p, h) ELSE h.h
  IN  IF p + 1 - k <= RollBlock THEN RollState(S, k, p + 1 - k, st).h
      ELSE Rolled(RollState(S, k, RollBlock, st))

\* the key of hashing the bytes S[0..p] one after the other
RollHashFar(S, p) == RollFar(S, 0, p, [h |-> HshZero, old |-> EOF, eql |-> 0])

\* search hashes a byte of the destination and looks the key up, for the
\* first time since it initialised the hash again
FirstLookup ==
  /\ jd.pc = "look" /\ jd.srch.ini
  /\ jd'.mzAhdNew = jd.mzAhdNew + 1

C36_Witness ==
  /\ jd.pc = "look" /\ jd.srch.ini /\ jd.mzAhdNew + 1 > 2 * SMPSZE
  /\ jd.s_liBck < SMPSZE * 2 - 1 /\ jd.s_liIdx = jd.s_liBck
  /\ jd.s_liMax > 0 /\ jd.mzAhdNew + 1 < Len(jd.new.dat)

\* C37: every call of add by jdiff passes a count of equal bytes of at most
\* SMPSZE * 2, so that miHshColCnt goes down by COLLISION_HIGH at every
\* call: after a call that stored with miHshColMax = 4k, the next call that
\* stores is the k-th, and while miHshColMax is 4 every call stores.
C37_EveryKth ==
  [][AddCalled =>
       /\ jd'.hsh.lst.eql <= SMPSZE * 2
       /\ AddStored <=> jd.hsh.sto.n + 1 = jd.hsh.sto.max \div COLLISION_HIGH
       /\ ~AddStored => jd'.hsh.colCnt = jd.hsh.colCnt - COLLISION_HIGH
       /\ jd'.hsh.colMax = COLLISION_THRESHOLD => AddStored]_vars

\* add has stored with a threshold of 12 or more, two calls have followed
\* that did not store, and the last one was for a sample within a run of
\* more than SMPSZE equal bytes
C37_Witness ==
  /\ jd.hsh.sto.max >= 3 * COLLISION_HIGH /\ jd.hsh.sto.n = 2
  /\ jd.hsh.lst.eql = SMPSZE

\* q is a prime number
IsPrimeNumber(q) ==
  q >= 2 /\ \A d \in 2..46340 : d * d <= q => q % d # 0

\* the budget in bytes divided by the size of a hash word and an offset; a
\* quarter of each is taken, as the bytes of the larger budgets exceed 2^31
BudgetElements(aiSze) ==
  (aiSze * (1048576 \div 4)) \div ((SizeofOffT + SizeofHkey) \div 4)

\* the number p is the largest prime that does not exceed n
LargestPrimeUpTo(p, n) ==
  /\ IsPrimeNumber(p) /\ p <= n
  /\ \A q \in (p + 1)..n : ~IsPrimeNumber(q)

\* C40: for every budget in megabytes (>= 1) the constructor of the index
\* yields a number of slots that is a prime >= 2 and the largest prime not
\* above the budget in bytes divided by the size of a hash word and an
\* offset, and the computation of the size does not overflow.
C40_LargestPrime ==
  (ix.op = "open" /\ ix.mbt >= 1) =>
    /\ ~MbOverflows(ix.mbt)
    /\ ix.hp.pme >= 2
    /\ LargestPrimeUpTo(ix.hp.pme, BudgetElements(ix.mbt))

\* for the budgets whose bytes fit an int the slots are that prime
C40_WithinInt ==
  (ix.op = "open" /\ ix.mbt >= 1 /\ ~MbOverflows(ix.mbt)) =>
    /\ ix.hp.pme >= 2
    /\ LargestPrimeUpTo(ix.hp.pme, BudgetElements(ix.mbt))

\* an index made with a budget that overflows, of a number of slots that is
\* no prime
C40_Witness ==
  /\ ix.op = "open" /\ MbOverflows(ix.mbt)
  /\ ix.hp.pme < 2

PatchCase == pt.pc = "done" /\ Coalesced(pt.ops) /\ Replay(PatchSrc, pt.ops).ok

HasEscData(ops) ==
  \E k \in 1..Len(ops) : \E j \in 1..Len(ops[k].dat) : ops[k].dat[j] = ESC

\* C9: in a MOD or INS run, also at its very start, the decoder writes one
\* byte 0xA7 for the two bytes 0xA7 0xA7 and goes on with the run: a patch
\* whose data holds 0xA7 bytes, each written twice, decodes to that data.
C9_EscapeOnce ==
  (PatchCase /\ ~pt.term /\ HasEscData(pt.ops)) =>
    (pt.ret = EXI_OK /\ pt.out = Replay(PatchSrc, pt.ops).out)

\* a run without its leading ESC MOD, whose data starts with 0xA7 and goes
\* on, has been decoded
C9_Witness ==
  /\ pt.pc = "done"
  /\ ~pt.term
  /\ pt.impl
  /\ pt.ops = <<DtaOp(MOD, <<ESC, 65>>), DtaOp(INS, <<65, ESC>>)>>
  /\ pt.pch.dat = <<ESC, ESC, 65, ESC, INS, 65, ESC, ESC>>
  /\ pt.out = <<ESC, 65, 65, ESC>>

=============================================================================
